---- MODULE Spec2Model ----
(***************************************************************************)
(* A model of the IRL middle-end: the semantic builder that lifts a parse  *)
(* tree into basic blocks, the SSA verifier, SSA construction (to_ssa),    *)
(* dead-code elimination and copy propagation.                             *)
(*                                                                         *)
(* A function is a record: blocks are numbered 1..n in source order, each  *)
(* carries a name (names are ordered like integers), an instruction list,  *)
(* and predecessor / successor lists.  Symbols and instructions are        *)
(* compared by identity in the program; here a symbol is the record        *)
(* [k, n, v, ty] and an instruction carries a unique id.                   *)
(***************************************************************************)
EXTENDS Integers, Sequences, FiniteSets, TLC

VARIABLES fn, pc, bld, pass, hist

vars == <<fn, pc, bld, pass, hist>>

(***************************************************************************)
(* Bounds of the model.                                                    *)
(***************************************************************************)
\* number of labelled blocks a function body may declare
NB == 2
\* number of instructions the builder lifts for one function body
MaxLift == 3
\* number of (label, operand) pairs in one phi of the parse tree
MaxPhiSrc == 2

(***************************************************************************)
(* Generic helpers.                                                        *)
(***************************************************************************)
Range(s) == {s[i] : i \in 1..Len(s)}

Contains(s, x) == \E i \in 1..Len(s) : s[i] = x

FoldLeft(Op(_, _), acc, s) ==
    LET f[i \in 0..Len(s)] == IF i = 0 THEN acc ELSE Op(f[i - 1], s[i])
    IN f[Len(s)]

Concat(ss) == FoldLeft(LAMBDA a, x : a \o x, <<>>, ss)

Filter(s, Keep(_)) == SelectSeq(s, Keep)

\* the sequence s with element x appended unless it is already there
PushUnique(s, x) == IF Contains(s, x) THEN s ELSE Append(s, x)

\* the elements of a finite set of integers in ascending order
RECURSIVE SortedSeq(_)
SortedSeq(S) ==
    IF S = {} THEN <<>>
    ELSE LET m == CHOOSE x \in S : \A y \in S : x <= y
         IN <<m>> \o SortedSeq(S \ {m})

\* stable insertion sort of s by the integer key Key(_)
StableSortBy(s, Key(_)) ==
    LET ins(acc, x) ==
            LET n == Cardinality({i \in 1..Len(acc) : Key(acc[i]) <= Key(x)})
            IN SubSeq(acc, 1, n) \o <<x>> \o SubSeq(acc, n + 1, Len(acc))
    IN FoldLeft(ins, <<>>, s)

(***************************************************************************)
(* Value model: symbols, constants, values.                                *)
(***************************************************************************)
NoSym == [k |-> "none", n |-> "", v |-> 0, ty |-> ""]

Local(name, ty) == [k |-> "local", n |-> name, v |-> 0, ty |-> ty]

Global(name, ty) == [k |-> "global", n |-> name, v |-> 0, ty |-> ty]

\* the symbol named "n.ver" that renaming issues for original name n
Versioned(sym, ver) == [sym EXCEPT !.v = ver]

is_local_var(sym) == sym.k = "local"

is_global_var(sym) == sym.k = "global"

Var(sym) == [t |-> "var", s |-> sym, c |-> 0]

Const(c) == [t |-> "const", s |-> NoSym, c |-> c]

IsLocalVal(val) == val.t = "var" /\ is_local_var(val.s)

(***************************************************************************)
(* Instruction model.                                                      *)
(***************************************************************************)
Inst(id, op, dst, src, pred, tgt) ==
    [id |-> id, op |-> op, dst |-> dst, src |-> src, pred |-> pred, tgt |-> tgt]

Mov(id, dst, s) == Inst(id, "mov", dst, <<s>>, <<>>, <<>>)

Bin(id, op, dst, a, b) == Inst(id, op, dst, <<a, b>>, <<>>, <<>>)

Call(id, dst, args) == Inst(id, "call", dst, args, <<>>, <<>>)

Phi(id, dst, preds, vals) == Inst(id, "phi", dst, vals, preds, <<>>)

Jmp(id, t) == Inst(id, "jmp", NoSym, <<>>, <<>>, <<t>>)

Br(id, c, t, f) == Inst(id, "br", NoSym, <<c>>, <<>>, <<t, f>>)

Ret(id, vals) == Inst(id, "ret", NoSym, vals, <<>>, <<>>)

St(id, s, p) == Inst(id, "st", NoSym, <<s, p>>, <<>>, <<>>)

is_phi(ins) == ins.op = "phi"

\* variant of is_ctrl that also takes a mov for a control-flow instruction
is_ctrl_with_mov(ins) == ins.op \in {"jmp", "br", "ret", "mov"}
is_ctrl(ins) == ins.op \in {"jmp", "br", "ret"}

HasDst(ins) == ins.dst # NoSym

is_cmp(op) == op \in {"eq", "ne", "lt", "le", "gt", "ge"}

has_side_effect(ins) ==
    \/ ins.op = "call"
    \/ ins.op = "st"
    \/ HasDst(ins) /\ is_global_var(ins.dst)

(***************************************************************************)
(* Function and control-flow graph.                                        *)
(***************************************************************************)
\* a function as build_fn_sig leaves it: no block yet, entry is a placeholder
NewFn(params, ret, attrSsa) ==
    [name |-> <<>>, inst |-> <<>>, pred |-> <<>>, succ |-> <<>>,
     param |-> params, scope |-> params, ret |-> ret, attr |-> attrSsa,
     ent |-> 0, exit |-> <<>>, ssa |-> FALSE]

BlocksOf(f) == 1..Len(f.inst)

connect(f, from, to) ==
    [f EXCEPT !.succ[from] = PushUnique(@, to), !.pred[to] = PushUnique(@, from)]

push_back(f, b, ins) == [f EXCEPT !.inst[b] = Append(@, ins)]

push_front(f, b, ins) == [f EXCEPT !.inst[b] = <<ins>> \o @]

is_complete(f, b) ==
    Len(f.inst[b]) > 0 /\ is_ctrl(f.inst[b][Len(f.inst[b])])

\* the blocks reachable from b along successor edges without entering Cut
ReachAvoid(f, b, Cut) ==
    LET step[i \in 0..Len(f.inst)] ==
            IF i = 0 THEN IF b \in Cut THEN {} ELSE {b}
            ELSE LET prev == step[i - 1]
                 IN prev \cup
                    {t \in BlocksOf(f) \ Cut : \E s \in prev : Contains(f.succ[s], t)}
    IN step[Len(f.inst)]

Reachable(f) == ReachAvoid(f, f.ent, {})

\* d dominates b: every path from the entry to b goes through d
Dominates(f, d, b) ==
    /\ b \in Reachable(f)
    /\ d \in Reachable(f)
    /\ (d = b \/ b \notin ReachAvoid(f, f.ent, {d}))

StrictDom(f, d, b) == d # b /\ Dominates(f, d, b)

\* the immediate dominator of a reachable block other than the entry
Idom(f, b) ==
    CHOOSE d \in BlocksOf(f) :
        /\ StrictDom(f, d, b)
        /\ \A e \in BlocksOf(f) : StrictDom(f, e, b) => Dominates(f, e, d)

\* build_dom: the children of b in the dominator tree
DomChildren(f, b) ==
    SortedSeq({c \in Reachable(f) \ {f.ent} : Idom(f, c) = b})

\* compute_df: the dominance frontier of b
compute_df(f, b) ==
    {d \in Reachable(f) :
        /\ \E p \in Range(f.pred[d]) : Dominates(f, b, p)
        /\ ~StrictDom(f, b, d)}

\* the dominator tree that build_dom stores in the blocks
DomTree(f) == [b \in BlocksOf(f) |-> IF b \in Reachable(f) THEN DomChildren(f, b) ELSE <<>>]

\* dfs / iter_dom: the blocks of the function, entry first
RECURSIVE DomOrder(_, _)
DomOrder(tree, b) ==
    <<b>> \o Concat([i \in 1..Len(tree[b]) |-> DomOrder(tree, tree[b][i])])

iter_dom(f) == DomOrder(DomTree(f), f.ent)

\* walk_dom: the on_enter / on_exit events of a dominator-tree walk
RECURSIVE DomWalk(_, _)
DomWalk(tree, b) ==
    <<[ev |-> "enter", b |-> b]>>
    \o Concat([i \in 1..Len(tree[b]) |-> DomWalk(tree, tree[b][i])])
    \o <<[ev |-> "exit", b |-> b]>>

walk_dom(f) == DomWalk(DomTree(f), f.ent)

(***************************************************************************)
(* Scope: insertion-ordered mapping from name to symbol.                   *)
(***************************************************************************)
ScopeHas(scope, name) == \E i \in 1..Len(scope) : scope[i].n = name /\ scope[i].v = 0

ScopeFind(scope, name) ==
    scope[CHOOSE i \in 1..Len(scope) : scope[i].n = name /\ scope[i].v = 0]

\* insert keeps the first symbol of a name
ScopeInsert(scope, sym) ==
    IF \E i \in 1..Len(scope) : scope[i].n = sym.n /\ scope[i].v = sym.v
    THEN scope ELSE Append(scope, sym)

ScopeRemove(scope, sym) ==
    SelectSeq(scope, LAMBDA s : ~(s.n = sym.n /\ s.v = sym.v))

(***************************************************************************)
(* Listener protocol of the dominator-tree walk (InstListener and          *)
(* ValueListener).  A listener state is a record with a field f, the       *)
(* function being walked; slots are addressed by block b, instruction      *)
(* index i and operand index k, and read from the state when visited.      *)
(***************************************************************************)
Indices(s) == [i \in 1..Len(s) |-> i]

\* the number of phi instructions at the front of block b
PhiPrefixLen(f, b) ==
    Cardinality({i \in 1..Len(f.inst[b]) : \A j \in 1..i : is_phi(f.inst[b][j])})

\* variant of SuccPhis that takes the phis of b itself
SuccPhis_own_block(f, b) == [j \in 1..PhiPrefixLen(f, b) |-> <<b, j>>]

\* the phis <<s, j>> of the successors s of b, in the order on_enter visits them
SuccPhis(f, b) ==
    LET phis(s) == [j \in 1..PhiPrefixLen(f, s) |-> <<s, j>>]
    IN Concat([n \in 1..Len(f.succ[b]) |-> phis(f.succ[b][n])])

\* InstListener::on_enter: every instruction of b, then the phis of each successor
InstOnEnter(OnInstr(_, _, _), OnSuccPhi(_, _, _, _), st, b) ==
    LET st1 == FoldLeft(LAMBDA a, i : OnInstr(a, b, i), st, Indices(st.f.inst[b]))
    IN FoldLeft(LAMBDA a, sj : OnSuccPhi(a, b, sj[1], sj[2]), st1, SuccPhis(st.f, b))

\* ValueListener::on_instr: sources then destination; a phi's destination only
ValueOnInstr(OnUse(_, _, _, _), OnDef(_, _, _), st, b, i) ==
    LET ins == st.f.inst[b][i]
    IN IF is_phi(ins)
       THEN IF HasDst(ins) THEN OnDef(st, b, i) ELSE st
       ELSE LET st1 == FoldLeft(LAMBDA a, k : OnUse(a, b, i, k), st, Indices(ins.src))
            IN IF HasDst(ins) THEN OnDef(st1, b, i) ELSE st1

\* ValueListener::on_succ_phi: the sources of the phi paired with block this
ValueOnSuccPhi(OnUse(_, _, _, _), st, this, s, j) ==
    LET phi == st.f.inst[s][j]
        ks == SelectSeq(Indices(phi.src), LAMBDA k : phi.pred[k] = this)
    IN FoldLeft(LAMBDA a, k : OnUse(a, s, j, k), st, ks)

(***************************************************************************)
(* SSA verifier.                                                           *)
(***************************************************************************)
\* an error message with the identifier or block name it carries
Err(msg, sym, num) == [msg |-> msg, sym |-> sym, num |-> num, got |-> 0]

\* "expect k operand(s), got m"
ErrArity(k, m) == [msg |-> "expect operand(s), got", sym |-> "", num |-> k, got |-> m]

NoErr == Err("", "", 0)

is_avail(st, sym) == \E i \in 1..Len(st.avail) : Contains(st.avail[i], sym)

\* variant of on_use that looks for the symbol in the top frame only
VerOnUse_top_frame(st, b, i, k) ==
    LET val == st.f.inst[b][i].src[k]
    IN IF IsLocalVal(val) /\ ~Contains(st.avail[Len(st.avail)], val.s)
       THEN [st EXCEPT !.err = Append(@, Err("is used before defined", val.s.n, 0))]
       ELSE st
VerOnUse(st, b, i, k) ==
    LET val == st.f.inst[b][i].src[k]
    IN IF IsLocalVal(val) /\ ~is_avail(st, val.s)
       THEN [st EXCEPT !.err = Append(@, Err("is used before defined", val.s.n, 0))]
       ELSE st

\* variant of on_def that takes a symbol as defined when a frame holds it
VerOnDef_on_path(st, b, i) ==
    LET sym == st.f.inst[b][i].dst
    IN IF ~is_local_var(sym) THEN st
       ELSE IF is_avail(st, sym)
       THEN [st EXCEPT !.err = Append(@, Err("already defined", sym.n, 0))]
       ELSE [st EXCEPT !.def = @ \cup {sym},
                       !.avail[Len(st.avail)] = Append(@, sym)]
VerOnDef(st, b, i) ==
    LET sym == st.f.inst[b][i].dst
    IN IF ~is_local_var(sym) THEN st
       ELSE IF sym \in st.def
       THEN [st EXCEPT !.err = Append(@, Err("already defined", sym.n, 0))]
       ELSE [st EXCEPT !.def = @ \cup {sym},
                       !.avail[Len(st.avail)] = Append(@, sym)]

VerOnInstr(st, b, i) == ValueOnInstr(VerOnUse, VerOnDef, st, b, i)

VerOnSuccPhi(st, this, s, j) == ValueOnSuccPhi(VerOnUse, st, this, s, j)

\* variant of MissingPreds that reads the successors of b
MissingPreds_of_succ(f, b, i) ==
    SelectSeq(f.succ[b], LAMBDA p : ~Contains(f.inst[b][i].pred, p))
\* the predecessors of b that the phi at index i of b has no source for
MissingPreds(f, b, i) ==
    SelectSeq(f.pred[b], LAMBDA p : ~Contains(f.inst[b][i].pred, p))

\* on_enter, lines 121-143: a new frame, then the phis of b against its predecessors
VerOnEnterCheck(st, b) ==
    LET pushed == [st EXCEPT !.avail = Append(@, <<>>)]
        errs == Concat([i \in 1..PhiPrefixLen(st.f, b) |->
                    [n \in 1..Len(MissingPreds(st.f, b, i)) |->
                        Err("phi operand not found for", "",
                            st.f.name[MissingPreds(st.f, b, i)[n]])]])
    IN [pushed EXCEPT !.err = @ \o errs]

VerOnEnter(st, b) == InstOnEnter(VerOnInstr, VerOnSuccPhi, VerOnEnterCheck(st, b), b)

VerOnExit(st, b) == [st EXCEPT !.avail = SubSeq(@, 1, Len(@) - 1)]

VerOnBegin(f) ==
    [f |-> f, def |-> Range(f.param), avail |-> <<f.param>>, err |-> <<>>]

VerOnEvent(st, e) == IF e.ev = "enter" THEN VerOnEnter(st, e.b) ELSE VerOnExit(st, e.b)

\* the verifier state when the walk of f ends, before on_end clears it
VerifierWalk(f) == FoldLeft(VerOnEvent, VerOnBegin(f), walk_dom(f))

(***************************************************************************)
(* Builder: tokens of the parse tree and symbol / value creation.          *)
(***************************************************************************)
LocalId(n) == [t |-> "local", n |-> n, c |-> 0]

GlobalId(n) == [t |-> "global", n |-> n, c |-> 0]

Integer(c) == [t |-> "int", n |-> "", c |-> c]

\* the global scope of the program: one global variable
GlobalScope == <<Global("g", "i64")>>

\* result of a builder step: the function, the error (NoErr when none), the output
Res(f, err, out) == [f |-> f, err |-> err, out |-> out]

Failed(r) == r.err # NoErr

\* the types of the model by name; "A" is the array [2 x i64], "S" the
\* struct {i64, A}, "*T" the pointer to T
TypeDef(ty) ==
    CASE ty = "A" -> [k |-> "array", tgt |-> "i64", len |-> 2, field |-> <<>>]
      [] ty = "S" -> [k |-> "struct", tgt |-> "", len |-> 0, field |-> <<"i64", "A">>]
      [] ty = "*i64" -> [k |-> "ptr", tgt |-> "i64", len |-> 0, field |-> <<>>]
      [] ty = "*A" -> [k |-> "ptr", tgt |-> "A", len |-> 0, field |-> <<>>]
      [] ty = "*S" -> [k |-> "ptr", tgt |-> "S", len |-> 0, field |-> <<>>]
      [] OTHER -> [k |-> "int", tgt |-> "", len |-> 0, field |-> <<>>]

\* Type::Ptr(Box::new(ty))
PtrTo(ty) ==
    CASE ty = "i64" -> "*i64"
      [] ty = "A" -> "*A"
      [] ty = "S" -> "*S"

\* an operator is legal for the integer types only
is_avail_for(op, ty) == TypeDef(ty).k = "int"

\* c as usize >= len for a 64-bit integer c: a negative c wraps to
\* 2^64 + c, which is above every length
UsizeGe(c, len) == c < 0 \/ c >= len

check_type(sym, ty) ==
    IF sym.ty # ty THEN Err("expect symbol of type", sym.n, 0) ELSE NoErr

create_symbol(f, tok, ty) ==
    IF tok.t = "global"
    THEN IF ScopeHas(GlobalScope, tok.n)
         THEN Res(f, check_type(ScopeFind(GlobalScope, tok.n), ty),
                  ScopeFind(GlobalScope, tok.n))
         ELSE Res(f, Err("not found in global scope", tok.n, 0), NoSym)
    ELSE IF ScopeHas(f.scope, tok.n)
         THEN Res(f, check_type(ScopeFind(f.scope, tok.n), ty), ScopeFind(f.scope, tok.n))
         ELSE Res([f EXCEPT !.scope = ScopeInsert(@, Local(tok.n, ty))], NoErr,
                  Local(tok.n, ty))

find_symbol(f, tok) ==
    IF tok.t = "global"
    THEN IF ScopeHas(GlobalScope, tok.n)
         THEN Res(f, NoErr, ScopeFind(GlobalScope, tok.n))
         ELSE Res(f, Err("not found in global scope", tok.n, 0), NoSym)
    ELSE IF ScopeHas(f.scope, tok.n)
         THEN Res(f, NoErr, ScopeFind(f.scope, tok.n))
         ELSE Res(f, Err("not found in local scope", tok.n, 0), NoSym)

create_const(f, tok, ty) ==
    IF ty = "i1" /\ tok.c \notin {0, 1}
    THEN Res(f, Err("cannot create constant", "", tok.c), Const(0))
    ELSE Res(f, NoErr, Const(tok.c))

create_value(f, ty, tok) ==
    IF tok.t = "int" THEN create_const(f, tok, ty)
    ELSE LET r == create_symbol(f, tok, ty) IN Res(r.f, r.err, Var(r.out))

create_def_val(f, ty, tok) ==
    IF tok.t = "int" THEN create_const(f, tok, ty)
    ELSE LET r == find_symbol(f, tok)
         IN IF Failed(r) THEN Res(f, r.err, Var(NoSym))
            ELSE Res(f, check_type(r.out, ty), Var(r.out))

\* variant of build_opd_list that reports the two counts the wrong way round
build_opd_list_swapped(f, tys, opds) ==
    IF Len(tys) # Len(opds)
    THEN Res(f, ErrArity(Len(opds), Len(tys)), <<>>)
    ELSE LET step(r, i) ==
                 IF Failed(r) THEN r
                 ELSE LET v == create_def_val(r.f, tys[i], opds[i])
                      IN Res(v.f, v.err, Append(r.out, v.out))
         IN FoldLeft(step, Res(f, NoErr, <<>>), Indices(opds))
\* build_opd_list: arity first, then each operand against its type, in order
build_opd_list(f, tys, opds) ==
    IF Len(tys) # Len(opds)
    THEN Res(f, ErrArity(Len(tys), Len(opds)), <<>>)
    ELSE LET step(r, i) ==
                 IF Failed(r) THEN r
                 ELSE LET v == create_def_val(r.f, tys[i], opds[i])
                      IN Res(v.f, v.err, Append(r.out, v.out))
         IN FoldLeft(step, Res(f, NoErr, <<>>), Indices(opds))

(***************************************************************************)
(* Builder: lifting one instruction of the parse tree (build_instr).  Each *)
(* operator returns the function with the effects made so far (symbols     *)
(* created, edges connected, exits recorded), the error, and the lifted    *)
(* instruction; cur is the block being lifted and labels maps a label name *)
(* to its block (0 when the label is not declared).                        *)
(***************************************************************************)
build_op_mov(f, id, dst, ty, opds) ==
    LET d == create_symbol(f, dst, ty)
        o == build_opd_list(d.f, <<ty>>, opds)
    IN IF Failed(d) THEN Res(d.f, d.err, NoSym)
       ELSE IF Failed(o) THEN Res(o.f, o.err, NoSym)
       ELSE Res(o.f, NoErr, Mov(id, d.out, o.out[1]))

\* variant of build_op_bin that gives the destination the declared type
build_op_bin_declared_ty(f, id, op, dst, ty, opds) ==
    LET d == create_symbol(f, dst, ty)
        o == build_opd_list(d.f, <<ty, ty>>, opds)
    IN IF ~is_avail_for(op, ty)
       THEN Res(f, Err("binary operation not supported for type", op, 0), NoSym)
       ELSE IF Failed(d) THEN Res(d.f, d.err, NoSym)
       ELSE IF Failed(o) THEN Res(o.f, o.err, NoSym)
       ELSE Res(o.f, NoErr, Bin(id, op, d.out, o.out[1], o.out[2]))
build_op_bin(f, id, op, dst, ty, opds) ==
    LET d == create_symbol(f, dst, IF is_cmp(op) THEN "i1" ELSE ty)
        o == build_opd_list(d.f, <<ty, ty>>, opds)
    IN IF ~is_avail_for(op, ty)
       THEN Res(f, Err("binary operation not supported for type", op, 0), NoSym)
       ELSE IF Failed(d) THEN Res(d.f, d.err, NoSym)
       ELSE IF Failed(o) THEN Res(o.f, o.err, NoSym)
       ELSE Res(o.f, NoErr, Bin(id, op, d.out, o.out[1], o.out[2]))

\* variant of elem_idx that does not compare a constant array index with len
elem_idx_no_array_range(f, ag_ty, val) ==
    LET def == TypeDef(ag_ty)
    IN IF def.k = "array" THEN Res(f, NoErr, def.tgt)
       ELSE IF def.k = "struct"
       THEN IF val.t # "const"
            THEN Res(f, Err("index into structure type is not constant", "", 0), ag_ty)
            ELSE IF UsizeGe(val.c, Len(def.field))
            THEN Res(f, Err("index out of range", "", Len(def.field)), ag_ty)
            ELSE Res(f, NoErr, def.field[val.c + 1])
       ELSE Res(f, Err("type is not aggregate", ag_ty, 0), ag_ty)
\* elem_idx: the type of the element that index val selects in ag_ty; out
\* is the element type
elem_idx(f, ag_ty, val) ==
    LET def == TypeDef(ag_ty)
    IN IF def.k = "array"
       THEN IF val.t = "const" /\ UsizeGe(val.c, def.len)
            THEN Res(f, Err("index out of range", "", def.len), ag_ty)
            ELSE Res(f, NoErr, def.tgt)
       ELSE IF def.k = "struct"
       THEN IF val.t # "const"
            THEN Res(f, Err("index into structure type is not constant", "", 0), ag_ty)
            ELSE IF UsizeGe(val.c, Len(def.field))
            THEN Res(f, Err("index out of range", "", Len(def.field)), ag_ty)
            ELSE Res(f, NoErr, def.field[val.c + 1])
       ELSE Res(f, Err("type is not aggregate", ag_ty, 0), ag_ty)

\* one index of build_ptr: the value first, then the step into the element
build_ptr_idx(r, tok) ==
    IF Failed(r) THEN r
    ELSE LET v == create_def_val(r.f, "i64", tok)
             e == elem_idx(r.f, r.out.ty, v.out)
         IN IF Failed(v) THEN Res(r.f, v.err, r.out)
            ELSE IF Failed(e) THEN Res(r.f, e.err, r.out)
            ELSE Res(r.f, NoErr, [ty |-> e.out, idx |-> Append(r.out.idx, v.out)])

\* a ptr instruction: base, the optional offset, then the indices
Ptr(id, dst, base, off, idx) == Inst(id, "ptr", dst, <<base>> \o off \o idx, <<>>, <<>>)

\* build_assign's PtrRhs arm followed by build_ptr
build_ptr(f, id, dst, ty, opds, idx) ==
    LET d == create_symbol(f, dst, ty)
        base == find_symbol(d.f, opds[1])
        off == create_def_val(d.f, "i64", opds[2])
        walk == FoldLeft(build_ptr_idx,
                         Res(d.f, NoErr, [ty |-> TypeDef(base.out.ty).tgt, idx |-> <<>>]),
                         idx)
    IN IF Failed(d) THEN Res(d.f, d.err, NoSym)
       ELSE IF Len(opds) \notin {1, 2}
       THEN Res(d.f, Err("expect 1 or 2 operands, got", "", Len(opds)), NoSym)
       ELSE IF Failed(base) THEN Res(d.f, base.err, NoSym)
       ELSE IF Len(opds) = 2 /\ Failed(off) THEN Res(d.f, off.err, NoSym)
       ELSE IF TypeDef(base.out.ty).k # "ptr"
       THEN Res(d.f, Err("expect pointer type, got", base.out.ty, 0), NoSym)
       ELSE IF Failed(walk) THEN Res(d.f, walk.err, NoSym)
       ELSE IF d.out.ty # PtrTo(walk.out.ty)
       THEN Res(d.f, Err("expect type, got", d.out.ty, 0), NoSym)
       ELSE Res(d.f, NoErr,
                Ptr(id, d.out, Var(base.out),
                    IF Len(opds) = 2 THEN <<off.out>> ELSE <<>>, walk.out.idx))

\* the functions of the global scope: name, parameter types, return type
GlobalFns == <<[n |-> "h", param |-> <<"i64", "i64">>, ret |-> "i64"]>>

\* build_fn_call; dst is the destination symbol, NoSym for a call whose result
\* is not assigned
build_fn_call(f, id, name, dst, args) ==
    LET fns == SelectSeq(GlobalFns, LAMBDA g : g.n = name)
        a == build_opd_list(f, fns[1].param, args)
    IN IF name = "main" THEN Res(f, Err("cannot call function @main", "", 0), NoSym)
       ELSE IF fns = <<>> /\ ~ScopeHas(GlobalScope, name)
       THEN Res(f, Err("function not found", name, 0), NoSym)
       ELSE IF fns = <<>> THEN Res(f, Err("symbol is not a function", name, 0), NoSym)
       ELSE IF Failed(a) THEN Res(a.f, a.err, NoSym)
       ELSE IF dst # NoSym /\ dst.ty # fns[1].ret
       THEN Res(a.f, Err("expect type, got", dst.n, 0), NoSym)
       ELSE Res(a.f, NoErr, Call(id, dst, a.out))

\* build_assign's CallRhs arm: the destination symbol, then the call
build_call_rhs(f, id, name, dst, ty, args) ==
    LET d == create_symbol(f, dst, ty)
    IN IF Failed(d) THEN Res(d.f, d.err, NoSym)
       ELSE build_fn_call(d.f, id, name, d.out, args)

\* one (label, operand) pair of a phi: the value first, then the label
build_phi_pair(r, labels, ty, pair) ==
    IF Failed(r) THEN r
    ELSE LET v == create_value(r.f, ty, pair.opd)
         IN IF Failed(v) THEN Res(v.f, v.err, r.out)
            ELSE IF v.out.t = "var" /\ is_global_var(v.out.s)
            THEN Res(v.f, Err("global variable cannot be used as source of phi", "", 0), r.out)
            ELSE IF labels[pair.lab] = 0
            THEN Res(v.f, Err("label not found", "", pair.lab), r.out)
            ELSE Res(v.f, NoErr, Append(r.out, [blk |-> labels[pair.lab], val |-> v.out]))

build_phi_instr(f, id, labels, dst, ty, list) ==
    LET d == create_symbol(f, dst, ty)
        ps == FoldLeft(LAMBDA r, pair : build_phi_pair(r, labels, ty, pair),
                       Res(d.f, NoErr, <<>>), list)
        sorted == StableSortBy(ps.out, LAMBDA p : ps.f.name[p.blk])
    IN IF Failed(d) THEN Res(d.f, d.err, NoSym)
       ELSE IF ~is_local_var(d.out)
       THEN Res(d.f, Err("destination is not local variable", d.out.n, 0), NoSym)
       ELSE IF Failed(ps) THEN Res(ps.f, ps.err, NoSym)
       ELSE Res(ps.f, NoErr,
                Phi(id, d.out, [i \in 1..Len(sorted) |-> sorted[i].blk],
                    [i \in 1..Len(sorted) |-> sorted[i].val]))

build_ret(f, id, cur, opd) ==
    LET f1 == [f EXCEPT !.exit = Append(@, cur)]
        v == create_def_val(f1, f.ret, opd[1])
    IN IF f.ret = "void"
       THEN IF opd = <<>> THEN Res(f1, NoErr, Ret(id, <<>>))
            ELSE Res(f1, Err("expect void, got value", "", 0), NoSym)
       ELSE IF opd = <<>> THEN Res(f1, Err("expect value, got void", "", 0), NoSym)
            ELSE IF Failed(v) THEN Res(v.f, v.err, NoSym)
            ELSE Res(v.f, NoErr, Ret(id, <<v.out>>))

\* variant of build_jmp that does not compare the target with the entry
build_jmp_any_target(f, id, cur, labels, tgt) ==
    IF labels[tgt] = 0 THEN Res(f, Err("label not found", "", tgt), NoSym)
    ELSE Res(connect(f, cur, labels[tgt]), NoErr, Jmp(id, labels[tgt]))
\* variant of build_jmp that lifts the instruction without connecting the edge
build_jmp_no_connect(f, id, cur, labels, tgt) ==
    IF labels[tgt] = 0 THEN Res(f, Err("label not found", "", tgt), NoSym)
    ELSE IF labels[tgt] = f.ent
    THEN Res(f, Err("cannot jump to function entry", "", f.name[labels[tgt]]), NoSym)
    ELSE Res(f, NoErr, Jmp(id, labels[tgt]))
\* the edge is connected before the target is compared with the entry
build_jmp(f, id, cur, labels, tgt) ==
    IF labels[tgt] = 0 THEN Res(f, Err("label not found", "", tgt), NoSym)
    ELSE LET f1 == connect(f, cur, labels[tgt])
         IN IF labels[tgt] = f.ent
            THEN Res(f1, Err("cannot jump to function entry", "", f.name[labels[tgt]]), NoSym)
            ELSE Res(f1, NoErr, Jmp(id, labels[tgt]))

build_br(f, id, cur, labels, cond, tr, fls) ==
    LET c == create_def_val(f, "i1", cond)
    IN IF Failed(c) THEN Res(c.f, c.err, NoSym)
       ELSE IF labels[tr] = 0 THEN Res(f, Err("label not found", "", tr), NoSym)
       ELSE IF labels[fls] = 0 THEN Res(f, Err("label not found", "", fls), NoSym)
       ELSE Res(connect(connect(f, cur, labels[tr]), cur, labels[fls]), NoErr,
                Br(id, c.out, labels[tr], labels[fls]))

(***************************************************************************)
(* Builder: build_body as a state machine.  The parse tree is drawn as the *)
(* build goes: which labels are declared, which instruction comes next in  *)
(* the current block, and where the block ends.                            *)
(***************************************************************************)
Types == {"i1", "i64"}

DstToks == {LocalId("x"), LocalId("y")}

OpdToks == {LocalId("x"), Integer(0)}

PhiPairs == [lab : 1..NB, opd : {LocalId("y"), Integer(0)}]

PhiLists == UNION {[1..n -> PhiPairs] : n \in 0..MaxPhiSrc}

\* the label names of the declared blocks, in source order; the last one
\* declares the same label twice
LabelSeqs ==
    UNION {{[i \in 1..n |-> i], [i \in 1..n |-> n + 1 - i]} : n \in 1..NB} \cup {<<1, 1>>}

NoBld == [labels |-> <<>>, cur |-> 0, in_phis |-> TRUE, may_ssa |-> FALSE,
          lifted |-> 0, err |-> NoErr]

NoPass == [op |-> "none"]

NoHist == [input |-> NewFn(<<>>, "void", FALSE)]

InitBuild ==
    /\ \E ret \in {"void", "i1"}, attr \in BOOLEAN :
           fn = NewFn(<<Local("c", "i1")>>, ret, attr)
    /\ pc = "labels"
    /\ bld = NoBld
    /\ pass = NoPass
    /\ hist = NoHist

\* a state of build_body: the function, the builder's locals, where it stands
BuildState(f, b, p) == [f |-> f, bld |-> b, pc |-> p]

\* the label map: a redeclared label maps to the last block declared with it
LabelMap(names) ==
    [l \in 1..((CHOOSE m \in Range(names) \cup {NB} :
                    \A n \in Range(names) \cup {NB} : n <= m) + 1) |->
        IF \E i \in 1..Len(names) : names[i] = l
        THEN CHOOSE i \in 1..Len(names) :
                 names[i] = l /\ \A j \in 1..Len(names) : names[j] = l => j <= i
        ELSE 0]

\* build_body, lines 249-271: one block per label, the first is the entry
build_labels(f, b, names) ==
    BuildState([f EXCEPT !.name = names,
                         !.inst = [i \in 1..Len(names) |-> <<>>],
                         !.pred = [i \in 1..Len(names) |-> <<>>],
                         !.succ = [i \in 1..Len(names) |-> <<>>],
                         !.ent = 1],
               [b EXCEPT !.labels = LabelMap(names), !.cur = 1, !.in_phis = TRUE,
                         !.may_ssa = f.attr],
               "lift")

\* variant of after_lift that does not look at the place of a phi
after_lift_any_place(f, b, r) ==
    IF Failed(r)
    THEN BuildState(r.f, [b EXCEPT !.err = r.err, !.lifted = @ + 1], "err")
    ELSE BuildState(push_back(r.f, b.cur, r.out),
                    [b EXCEPT !.may_ssa = @ \/ is_phi(r.out),
                              !.in_phis = @ /\ is_phi(r.out),
                              !.lifted = @ + 1],
                    "lift")
\* build_body, lines 274-295: what follows build_instr for one term
after_lift(f, b, r) ==
    IF Failed(r)
    THEN BuildState(r.f, [b EXCEPT !.err = r.err, !.lifted = @ + 1], "err")
    ELSE IF is_phi(r.out) /\ ~b.in_phis
    THEN BuildState(r.f,
                    [b EXCEPT !.err = Err("non-phi instruction found before phi's", "",
                                          f.name[b.cur]),
                              !.may_ssa = TRUE, !.lifted = @ + 1],
                    "err")
    ELSE BuildState(push_back(r.f, b.cur, r.out),
                    [b EXCEPT !.may_ssa = @ \/ is_phi(r.out),
                              !.in_phis = @ /\ is_phi(r.out),
                              !.lifted = @ + 1],
                    "lift")

\* build_body, lines 296-303: the terms of the current block are exhausted
end_block(f, b) ==
    IF ~is_complete(f, b.cur)
    THEN BuildState(f, [b EXCEPT !.err = Err("block is not complete", "", f.name[b.cur])],
                    "err")
    ELSE IF b.cur < Len(f.inst)
    THEN BuildState(f, [b EXCEPT !.cur = @ + 1, !.in_phis = TRUE], "lift")
    ELSE BuildState(f, b, "verify")

\* variant of verify that runs the verifier for the ssa attribute only
verify_attr_only(f, b) ==
    IF ~f.attr THEN BuildState(f, b, "ok")
    ELSE LET ver == VerifierWalk(f)
         IN IF ver.err # <<>>
            THEN BuildState([f EXCEPT !.ssa = TRUE], [b EXCEPT !.err = ver.err[1]], "err")
            ELSE BuildState([f EXCEPT !.ssa = TRUE], b, "ok")
\* build_body, lines 305-320: dominators, then the verifier when SSA is assumed;
\* the verifier's on_end sets the SSA flag whatever the error list holds
verify(f, b) ==
    IF ~b.may_ssa THEN BuildState(f, b, "ok")
    ELSE LET ver == VerifierWalk(f)
         IN IF ver.err # <<>>
            THEN BuildState([f EXCEPT !.ssa = TRUE], [b EXCEPT !.err = ver.err[1]], "err")
            ELSE BuildState([f EXCEPT !.ssa = TRUE], b, "ok")

Becomes(s) == fn' = s.f /\ bld' = s.bld /\ pc' = s.pc

BuildLabels ==
    /\ pc = "labels"
    /\ \E names \in LabelSeqs : Becomes(build_labels(fn, bld, names))
    /\ UNCHANGED <<pass, hist>>

CanLift == pc = "lift" /\ bld.lifted < MaxLift

NextId == bld.lifted + 1

LiftMov ==
    /\ CanLift
    /\ \E dst \in DstToks, ty \in Types, opd \in OpdToks :
           Becomes(after_lift(fn, bld, build_op_mov(fn, NextId, dst, ty, <<opd>>)))
    /\ UNCHANGED <<pass, hist>>

LiftPhi ==
    /\ CanLift
    /\ \E list \in PhiLists :
           Becomes(after_lift(fn, bld,
               build_phi_instr(fn, NextId, bld.labels, LocalId("x"), "i1", list)))
    /\ UNCHANGED <<pass, hist>>

LiftJmp ==
    /\ CanLift
    /\ \E tgt \in 1..NB :
           Becomes(after_lift(fn, bld, build_jmp(fn, NextId, bld.cur, bld.labels, tgt)))
    /\ UNCHANGED <<pass, hist>>

LiftBr ==
    /\ CanLift
    /\ \E tr \in 1..NB, fls \in 1..NB :
           Becomes(after_lift(fn, bld,
               build_br(fn, NextId, bld.cur, bld.labels, LocalId("c"), tr, fls)))
    /\ UNCHANGED <<pass, hist>>

LiftRet ==
    /\ CanLift
    /\ \E opd \in {<<>>, <<LocalId("c")>>} :
           Becomes(after_lift(fn, bld, build_ret(fn, NextId, bld.cur, opd)))
    /\ UNCHANGED <<pass, hist>>

EndBlock ==
    /\ pc = "lift"
    /\ Becomes(end_block(fn, bld))
    /\ UNCHANGED <<pass, hist>>

Verify ==
    /\ pc = "verify"
    /\ Becomes(verify(fn, bld))
    /\ UNCHANGED <<pass, hist>>

NextBuild ==
    \/ BuildLabels
    \/ LiftMov
    \/ LiftPhi
    \/ LiftJmp
    \/ LiftBr
    \/ LiftRet
    \/ EndBlock
    \/ Verify

SpecBuild == InitBuild /\ [][NextBuild]_vars

(***************************************************************************)
(* Builder: a whole function body at once.  A term of the parse tree is a   *)
(* record; build_instr dispatches on its form and build_body folds the     *)
(* steps above over the blocks of the body.                                *)
(***************************************************************************)
Term(t, op, dst, ty, opd, list, lab) ==
    [t |-> t, op |-> op, dst |-> dst, ty |-> ty, opd |-> opd, list |-> list, lab |-> lab]

NoTok == [t |-> "none", n |-> "", c |-> 0]

TMov(dst, ty, src) == Term("assign", "mov", dst, ty, <<src>>, <<>>, <<>>)

TBin(op, dst, ty, a, b) == Term("assign", op, dst, ty, <<a, b>>, <<>>, <<>>)

TPhi(dst, ty, list) == Term("phi", "phi", dst, ty, <<>>, list, <<>>)

TJmp(tgt) == Term("jmp", "jmp", NoTok, "", <<>>, <<>>, <<tgt>>)

TBr(cond, tr, fls) == Term("br", "br", NoTok, "", <<cond>>, <<>>, <<tr, fls>>)

TRet(opd) == Term("ret", "ret", NoTok, "", opd, <<>>, <<>>)

TPtr(dst, ty, opd, idx) == Term("ptr", "ptr", dst, ty, opd, idx, <<>>)

TCall(name, dst, ty, args) == Term("call", name, dst, ty, args, <<>>, <<>>)

PhiOpd(lab, opd) == [lab |-> lab, opd |-> opd]

build_instr(f, id, cur, labels, term) ==
    IF term.t = "phi" THEN build_phi_instr(f, id, labels, term.dst, term.ty, term.list)
    ELSE IF term.t = "jmp" THEN build_jmp(f, id, cur, labels, term.lab[1])
    ELSE IF term.t = "br"
    THEN build_br(f, id, cur, labels, term.opd[1], term.lab[1], term.lab[2])
    ELSE IF term.t = "ret" THEN build_ret(f, id, cur, term.opd)
    ELSE IF term.t = "call"
    THEN IF term.dst = NoTok THEN build_fn_call(f, id, term.op, NoSym, term.opd)
         ELSE build_call_rhs(f, id, term.op, term.dst, term.ty, term.opd)
    ELSE IF term.t = "ptr" THEN build_ptr(f, id, term.dst, term.ty, term.opd, term.list)
    ELSE IF term.op = "mov" THEN build_op_mov(f, id, term.dst, term.ty, term.opd)
    ELSE build_op_bin(f, id, term.op, term.dst, term.ty, term.opd)

\* the terms of the body in source order, each block followed by its end
EndOfBlock == Term("end", "", NoTok, "", <<>>, <<>>, <<>>)

BodyItems(blocks) == Concat([i \in 1..Len(blocks) |-> Append(blocks[i], EndOfBlock)])

\* build_body, lines 272-303: one term lifted, or the end of a block checked
build_step(s, item) ==
    IF s.pc # "lift" THEN s
    ELSE IF item.t = "end" THEN end_block(s.f, s.bld)
    ELSE after_lift(s.f, s.bld,
             build_instr(s.f, s.bld.lifted + 1, s.bld.cur, s.bld.labels, item))

build_lift(f, names, blocks) ==
    FoldLeft(build_step, build_labels(f, NoBld, names), BodyItems(blocks))

\* build_body, lines 305-320, after the lifting stopped in state s
build_verify(s) == IF s.pc = "verify" THEN verify(s.f, s.bld) ELSE s

\* build_body for the blocks named names, blocks[i] the terms of the i-th block
build_body(f, names, blocks) == build_verify(build_lift(f, names, blocks))

(***************************************************************************)
(* Builder: lifting the instructions of one block one at a time.  The term *)
(* lifted last is kept in pass.term, the function before that lifting in   *)
(* hist.input.                                                             *)
(***************************************************************************)
MaxTerms == 2

\* the parameters: %c: i1, %n: i64, %p: *S, %q: *A
LiftParams == <<Local("c", "i1"), Local("n", "i64"), Local("p", "*S"), Local("q", "*A")>>

Ln == LocalId("n")

SeqsUpTo(S, n) == UNION {[1..m -> S] : m \in 0..n}

BinTerms ==
    {Term("assign", op, dst, ty, opd, <<>>, <<>>) :
        op \in {"add", "lt"}, dst \in {LocalId("x"), LocalId("c"), Ln, GlobalId("g")},
        ty \in {"i1", "i64", "*i64"}, opd \in SeqsUpTo({Ln, Integer(1)}, 3) \ {<<>>}}

MovTerms ==
    {Term("assign", "mov", dst, "i64", opd, <<>>, <<>>) :
        dst \in {LocalId("x"), LocalId("c")}, opd \in SeqsUpTo({Ln, Integer(1)}, 2)}

CallTerms ==
    {TCall(name, dst, "i64", args) :
        name \in {"h", "g", "k", "main"}, dst \in {NoTok, LocalId("x"), LocalId("c")},
        args \in SeqsUpTo({Ln, LocalId("c")}, 3)}

PtrTerms ==
    {TPtr(LocalId("y"), ty, opd, idx) :
        ty \in {"*i64", "*A", "*S", "i64"},
        opd \in {<<>>, <<LocalId("p")>>, <<LocalId("q")>>, <<Ln>>, <<LocalId("p"), Ln>>,
                 <<LocalId("q"), LocalId("c")>>, <<LocalId("p"), Ln, Ln>>},
        idx \in SeqsUpTo({Integer(0), Integer(1), Integer(2), Integer(-1), Ln}, 2)}

InitLift ==
    /\ LET s == build_labels(NewFn(LiftParams, "void", FALSE), NoBld, <<1>>)
       IN fn = s.f /\ bld = s.bld /\ pc = s.pc
    /\ pass = [op |-> "lift", term |-> EndOfBlock]
    /\ hist = NoHist

CanLiftTerm == pc = "lift" /\ bld.lifted < MaxTerms

\* build_body, lines 274-295, for one term of the current block
LiftTerm(term) ==
    /\ Becomes(after_lift(fn, bld, build_instr(fn, NextId, bld.cur, bld.labels, term)))
    /\ pass' = [op |-> "lift", term |-> term]
    /\ hist' = [input |-> fn]

LiftBinTerm ==
    /\ CanLiftTerm
    /\ \E term \in BinTerms : LiftTerm(term)

LiftMovTerm ==
    /\ CanLiftTerm
    /\ \E term \in MovTerms : LiftTerm(term)

LiftCallTerm ==
    /\ CanLiftTerm
    /\ \E term \in CallTerms : LiftTerm(term)

LiftPtrTerm ==
    /\ CanLiftTerm
    /\ \E term \in PtrTerms : LiftTerm(term)

NextLift ==
    \/ LiftBinTerm
    \/ LiftMovTerm
    \/ LiftCallTerm
    \/ LiftPtrTerm

SpecLift == InitLift /\ [][NextLift]_vars

(***************************************************************************)
(* The functions the passes are run on: every body of five families that  *)
(* the builder accepts.  Straight: one block of assignments.  Loop:        *)
(* entry, a header with a phi that branches to itself or to the exit.      *)
(* Diamond: entry, one arm, join.  Fork: entry, two arms, join; the arms   *)
(* and the join may define or use %y and %z, and the join may start with a *)
(* phi.  Nest: entry, a loop whose body is a header, one arm and a latch,  *)
(* exit.                                                                   *)
(***************************************************************************)
La == LocalId("a")

Lb == LocalId("b")

Lx == LocalId("x")

Ly == LocalId("y")

Lz == LocalId("z")

Gg == GlobalId("g")

StraightHeads ==
    {<<>>,
     <<TMov(La, "i64", Integer(0))>>,
     <<TMov(Gg, "i64", Integer(0))>>,
     <<TBin("add", Lx, "i64", Gg, Integer(1))>>}

StraightMids ==
    {<<>>,
     <<TMov(Lb, "i64", La)>>,
     <<TMov(La, "i64", Integer(1))>>,
     <<TMov(Gg, "i64", Integer(0))>>}

StraightTails ==
    {<<>>,
     <<TBin("add", Lx, "i64", Lb, Integer(1))>>,
     <<TBin("add", Ly, "i64", Gg, Integer(1))>>,
     <<TBin("add", Ly, "i64", La, La)>>,
     <<TBin("add", Ly, "i64", Lb, Integer(1)), TBin("add", Lz, "i64", Ly, Ly)>>}

StraightBodies ==
    {<<head \o mid \o tail \o <<TRet(<<>>)>>>> :
        head \in StraightHeads, mid \in StraightMids, tail \in StraightTails}

LoopPhis ==
    {<<PhiOpd(1, La), PhiOpd(2, Lb)>>,
     <<PhiOpd(2, Lb), PhiOpd(1, La)>>,
     <<PhiOpd(1, La), PhiOpd(2, Lb), PhiOpd(2, Lb)>>,
     <<PhiOpd(1, La), PhiOpd(2, Lb), PhiOpd(3, Lz)>>}

LoopSteps ==
    {<<TBin("add", Lb, "i64", Lx, Integer(1))>>,
     <<TMov(Lb, "i64", Lx)>>,
     <<TBin("add", Lb, "i64", Lx, Lx)>>}

LoopTails ==
    {<<>>,
     <<TBin("add", Ly, "i64", Lb, Integer(1))>>,
     <<TBin("add", Ly, "i64", Lx, Integer(1))>>,
     <<TMov(Gg, "i64", Lb)>>,
     <<TMov(Ly, "i64", Lb), TBin("add", Lz, "i64", Ly, Integer(1))>>}

LoopBodies ==
    {<<<<TMov(La, "i64", Integer(0)), TJmp(2)>>,
       <<TPhi(Lx, "i64", phi)>> \o step \o tail \o <<TBr(LocalId("c"), 2, 3)>>,
       <<TRet(<<>>)>>>> :
        phi \in LoopPhis, step \in LoopSteps, tail \in LoopTails}

DiamondArms ==
    {<<TMov(La, "i64", Integer(1))>>,
     <<TMov(Lb, "i64", La)>>,
     <<TMov(Gg, "i64", La)>>,
     <<TBin("add", La, "i64", La, Integer(1))>>}

DiamondJoins ==
    {<<>>,
     <<TBin("add", Lx, "i64", La, La)>>,
     <<TMov(Lx, "i64", La), TBin("add", Ly, "i64", Lx, Gg)>>}

DiamondBodies ==
    {<<<<TMov(La, "i64", Integer(0)), TBr(LocalId("c"), 2, 3)>>,
       arm \o <<TJmp(3)>>,
       join \o <<TRet(<<>>)>>>> :
        arm \in DiamondArms, join \in DiamondJoins}

ForkHeads ==
    {<<>>,
     <<TMov(Ly, "i64", Integer(0))>>,
     <<TBin("lt", LocalId("c"), "i64", Integer(0), Integer(1))>>}

ForkArms ==
    {<<>>,
     <<TMov(Ly, "i64", Integer(1))>>,
     <<TMov(Ly, "i64", Integer(1)), TMov(Lz, "i64", Ly)>>,
     <<TMov(Lz, "i64", Ly)>>}

ForkJoins ==
    {<<>>,
     <<TMov(Lx, "i64", Ly)>>,
     <<TPhi(Lx, "i64", <<PhiOpd(2, Ly), PhiOpd(3, Ly)>>)>>,
     <<TPhi(Lx, "i64", <<PhiOpd(2, Ly)>>), TMov(Lz, "i64", Lx)>>}

ForkBodies ==
    {<<head \o <<TBr(LocalId("c"), 2, 3)>>,
       left \o <<TJmp(4)>>,
       right \o <<TJmp(4)>>,
       join \o <<TRet(<<>>)>>>> :
        head \in ForkHeads, left \in ForkArms, right \in ForkArms, join \in ForkJoins}

NestHeads == {<<>>, <<TMov(Ly, "i64", Integer(0))>>}

NestArms ==
    {<<TMov(Ly, "i64", Integer(1))>>,
     <<TMov(Ly, "i64", Integer(1)), TMov(Lz, "i64", Ly)>>}

NestTails == {<<>>, <<TMov(Lx, "i64", Ly)>>}

NestBodies ==
    {<<head \o <<TJmp(2)>>,
       <<TBr(LocalId("c"), 3, 4)>>,
       arm \o <<TJmp(4)>>,
       tail \o <<TBr(LocalId("c"), 2, 5)>>,
       <<TRet(<<>>)>>>> :
        head \in NestHeads, arm \in NestArms, tail \in NestTails}

\* a loop whose step is a call of @h
CallBodies ==
    {<<<<TMov(La, "i64", Integer(0)), TJmp(2)>>,
       <<TPhi(Lx, "i64", <<PhiOpd(1, La), PhiOpd(2, Lb)>>),
         TCall("h", Lb, "i64", <<Lx, Integer(1)>>)>> \o tail \o <<TBr(LocalId("c"), 2, 3)>>,
       <<TRet(<<>>)>>>> :
        tail \in {<<>>, <<TMov(Gg, "i64", Lb)>>}}

Bodies ==
    StraightBodies \cup LoopBodies \cup DiamondBodies \cup ForkBodies \cup NestBodies
        \cup CallBodies

\* the outcome of building body with or without the ssa attribute
Build(body, attr) ==
    build_body(NewFn(<<Local("c", "i1")>>, "void", attr), Indices(body), body)

\* one block that reassigns the parameter %x and returns it
ParamBodies ==
    {<<step \o <<TRet(<<Lx>>)>>>> :
        step \in {<<>>,
                  <<TBin("add", Lx, "i64", Lx, Integer(1))>>,
                  <<TBin("add", Lx, "i64", Lx, Integer(1)),
                    TBin("add", Lx, "i64", Lx, Integer(1))>>,
                  <<TBin("add", Ly, "i64", Lx, Integer(1)),
                    TBin("add", Lx, "i64", Ly, Lx)>>}}

\* the outcome of building body in a function of parameter %x that returns i64
BuildParam(body) ==
    build_body(NewFn(<<Local("x", "i64")>>, "i64", FALSE), Indices(body), body)

\* the functions of successfully built programs
BuiltFns ==
    {s.f : s \in {t \in {Build(body, attr) : body \in Bodies, attr \in BOOLEAN}
                          \cup {BuildParam(body) : body \in ParamBodies} : t.pc = "ok"}}

(***************************************************************************)
(* The verifier's walk, one listener call at a time.  pass.st is the       *)
(* verifier, pass.walk the events of walk_dom, pass.at the index of the    *)
(* event reached, pass.i and pass.j the instructions and successor phis of *)
(* its block visited.  hist.log holds, for each block entered, the calls   *)
(* of on_use and on_def that the default methods made so far.              *)
(***************************************************************************)
\* the functions build_body runs the verifier on
VerifiedFns ==
    {s.f : s \in {t \in {build_lift(NewFn(<<Local("c", "i1")>>, "void", attr),
                                    Indices(body), body) :
                            body \in Bodies, attr \in BOOLEAN} :
                    t.pc = "verify" /\ t.bld.may_ssa}}

\* a listener that only records the calls of on_use and on_def it receives:
\* the instruction <<b, i>>, the operand k, the block being entered and the
\* default method that made the call
RecOnUse(st, b, i, k) ==
    [st EXCEPT !.log = Append(@, [ev |-> "use", b |-> b, i |-> i, k |-> k,
                                  from |-> st.this, via |-> st.via])]

RecOnDef(st, b, i) ==
    [st EXCEPT !.log = Append(@, [ev |-> "def", b |-> b, i |-> i, k |-> 0,
                                  from |-> st.this, via |-> st.via])]

RecOnInstr(f, b, i) ==
    ValueOnInstr(RecOnUse, RecOnDef, [f |-> f, log |-> <<>>, this |-> b, via |-> "on_instr"],
                 b, i).log

RecOnSuccPhi(f, this, s, j) ==
    ValueOnSuccPhi(RecOnUse, [f |-> f, log |-> <<>>, this |-> this, via |-> "on_succ_phi"],
                   this, s, j).log

InitVerify ==
    /\ fn \in VerifiedFns
    /\ pc = "begin"
    /\ bld = NoBld
    /\ pass = [op |-> "verify", st |-> [f |-> fn, def |-> {}, avail |-> <<>>, err |-> <<>>],
               walk |-> <<>>, at |-> 0, i |-> 0, j |-> 0]
    /\ hist = [input |-> fn, log |-> <<>>]

\* the block of the event reached
CurBlock == pass.walk[pass.at].b

\* the listener call of the event reached has returned
EventDone ==
    IF pass.at = 0 THEN TRUE
    ELSE IF pass.walk[pass.at].ev = "exit" THEN TRUE
    ELSE pass.i = Len(fn.inst[CurBlock]) /\ pass.j = Len(SuccPhis(fn, CurBlock))

NextEvent(ev) ==
    /\ pc = "walk"
    /\ EventDone
    /\ pass.at < Len(pass.walk)
    /\ pass.walk[pass.at + 1].ev = ev

VerBegin ==
    /\ pc = "begin"
    /\ pass' = [pass EXCEPT !.st = VerOnBegin(fn), !.walk = walk_dom(fn)]
    /\ pc' = "walk"
    /\ UNCHANGED <<fn, bld, hist>>

VerEnter ==
    /\ NextEvent("enter")
    /\ pass' = [pass EXCEPT !.st = VerOnEnterCheck(@, pass.walk[pass.at + 1].b),
                            !.at = @ + 1, !.i = 0, !.j = 0]
    /\ hist' = [hist EXCEPT !.log = Append(@, <<>>)]
    /\ UNCHANGED <<fn, pc, bld>>

VerInstr ==
    /\ pc = "walk"
    /\ ~EventDone
    /\ pass.i < Len(fn.inst[CurBlock])
    /\ pass' = [pass EXCEPT !.st = VerOnInstr(@, CurBlock, pass.i + 1), !.i = @ + 1]
    /\ hist' = [hist EXCEPT !.log[Len(hist.log)] = @ \o RecOnInstr(fn, CurBlock, pass.i + 1)]
    /\ UNCHANGED <<fn, pc, bld>>

VerSuccPhi ==
    /\ pc = "walk"
    /\ ~EventDone
    /\ pass.i = Len(fn.inst[CurBlock])
    /\ LET sj == SuccPhis(fn, CurBlock)[pass.j + 1]
       IN /\ pass' = [pass EXCEPT !.st = VerOnSuccPhi(@, CurBlock, sj[1], sj[2]),
                                  !.j = @ + 1]
          /\ hist' = [hist EXCEPT !.log[Len(hist.log)] =
                                      @ \o RecOnSuccPhi(fn, CurBlock, sj[1], sj[2])]
    /\ UNCHANGED <<fn, pc, bld>>

VerExit ==
    /\ NextEvent("exit")
    /\ pass' = [pass EXCEPT !.st = VerOnExit(@, pass.walk[pass.at + 1].b), !.at = @ + 1]
    /\ UNCHANGED <<fn, pc, bld, hist>>

\* on_end, lines 114-118
VerEnd ==
    /\ pc = "walk"
    /\ EventDone
    /\ pass.at = Len(pass.walk)
    /\ fn' = [fn EXCEPT !.ssa = TRUE]
    /\ pass' = [pass EXCEPT !.st.def = {}, !.st.avail = <<>>]
    /\ pc' = "done"
    /\ UNCHANGED <<bld, hist>>

NextVerify ==
    \/ VerBegin
    \/ VerEnter
    \/ VerInstr
    \/ VerSuccPhi
    \/ VerExit
    \/ VerEnd

SpecVerify == InitVerify /\ [][NextVerify]_vars

(***************************************************************************)
(* SSA conversion: phi insertion and renaming.                             *)
(***************************************************************************)
AllInsts(f) == UNION {Range(f.inst[b]) : b \in BlocksOf(f)}

InstById(f, id) == CHOOSE ins \in AllInsts(f) : ins.id = id

\* identity of a newly allocated instruction
FreshId(f) ==
    IF AllInsts(f) = {} THEN 1
    ELSE 1 + (CHOOSE m \in {ins.id : ins \in AllInsts(f)} :
                  \A ins \in AllInsts(f) : ins.id <= m)

\* defined_sym: the local symbols that the instructions of b define
defined_sym(f, b) ==
    {f.inst[b][i].dst : i \in {j \in 1..Len(f.inst[b]) :
                                  HasDst(f.inst[b][j]) /\ is_local_var(f.inst[b][j].dst)}}

\* the blocks of the depth-first walk that define sym
def_site(f, sym) == {b \in Reachable(f) : sym \in defined_sym(f, b)}

\* insert_phi, lines 246-252: the phi for sym at the front of tgt
insert_phi_at(f, sym, tgt) ==
    push_front(f, tgt,
        Phi(FreshId(f), sym, f.pred[tgt], [i \in 1..Len(f.pred[tgt]) |-> Var(sym)]))

\* variant of insert_phi_pick that never puts a target on the worklist
insert_phi_pick_once(f, orig, sym, work, ins, block) ==
    LET tgts == SortedSeq(compute_df(f, block) \ ins)
    IN [f |-> FoldLeft(LAMBDA g, tgt : insert_phi_at(g, sym, tgt), f, tgts),
        work |-> work \ {block},
        ins |-> ins \cup Range(tgts)]
\* insert_phi, lines 242-259: one block picked from the worklist of sym;
\* orig is the function as it was when insert_phi began, ins the blocks that
\* hold a phi for sym; yields the function, the worklist and ins
insert_phi_pick(f, orig, sym, work, ins, block) ==
    LET tgts == SortedSeq(compute_df(f, block) \ ins)
    IN [f |-> FoldLeft(LAMBDA g, tgt : insert_phi_at(g, sym, tgt), f, tgts),
        work |-> (work \ {block}) \cup {t \in Range(tgts) : sym \notin defined_sym(orig, t)},
        ins |-> ins \cup Range(tgts)]

\* Renamer: sym maps a name to its count and its stack of versions, def is the
\* stack of frames of names defined in the blocks entered
RenOnBegin(f) ==
    [f |-> [f EXCEPT !.scope = [i \in 1..Len(f.scope) |-> Local(f.scope[i].n, f.scope[i].ty)],
                     !.param = [i \in 1..Len(f.param) |-> Local(f.param[i].n, f.param[i].ty)]],
     sym |-> [n \in {f.scope[i].n : i \in 1..Len(f.scope)} |->
                 [count |-> 0, stack |-> <<Local(n, ScopeFind(f.scope, n).ty)>>]],
     def |-> <<>>]

latest(rs) == rs.stack[Len(rs.stack)]

RenOnUse(st, b, i, k) ==
    LET val == st.f.inst[b][i].src[k]
    IN IF IsLocalVal(val)
       THEN [st EXCEPT !.f.inst[b][i].src[k] = Var(latest(st.sym[val.s.n]))]
       ELSE st

RenOnDef(st, b, i) ==
    LET old == st.f.inst[b][i].dst
        rs == st.sym[old.n]
        new_sym == Versioned(Local(old.n, latest(rs).ty), rs.count + 1)
    IN IF ~is_local_var(old) THEN st
       ELSE [st EXCEPT !.f.inst[b][i].dst = new_sym,
                       !.f.scope = ScopeInsert(@, new_sym),
                       !.sym[old.n] = [count |-> rs.count + 1,
                                       stack |-> Append(rs.stack, new_sym)],
                       !.def[Len(st.def)] = Append(@, old.n)]

RenOnInstr(st, b, i) == ValueOnInstr(RenOnUse, RenOnDef, st, b, i)

RenOnSuccPhi(st, this, s, j) == ValueOnSuccPhi(RenOnUse, st, this, s, j)

RenOnEnter(st, b) ==
    InstOnEnter(RenOnInstr, RenOnSuccPhi, [st EXCEPT !.def = Append(@, <<>>)], b)

\* variant of on_exit that pops one version only, for the first name of the frame
RenOnExit_pop_first(st, b) ==
    LET frame == st.def[Len(st.def)]
    IN [st EXCEPT !.sym = IF frame = <<>> THEN @
                          ELSE [@ EXCEPT ![frame[1]].stack = SubSeq(@, 1, Len(@) - 1)],
                  !.def = SubSeq(@, 1, Len(@) - 1)]
\* variant of on_exit that leaves the versions of the block on the stacks
RenOnExit_keep_stack(st, b) == [st EXCEPT !.def = SubSeq(@, 1, Len(@) - 1)]

RenOnExit(st, b) ==
    LET popped == FoldLeft(LAMBDA m, n : [m EXCEPT ![n].stack = SubSeq(@, 1, Len(@) - 1)],
                           st.sym, st.def[Len(st.def)])
    IN [st EXCEPT !.sym = popped, !.def = SubSeq(@, 1, Len(@) - 1)]

RenOnEvent(st, e) == IF e.ev = "enter" THEN RenOnEnter(st, e.b) ELSE RenOnExit(st, e.b)

\* the Renamer when the walk of f ends, before on_end clears it
RenamerWalk(f) == FoldLeft(RenOnEvent, RenOnBegin(f), walk_dom(f))

rename(f) == RenamerWalk(f).f

(***************************************************************************)
(* Def-use index and dead-code elimination.                                *)
(***************************************************************************)
DefPos(kind, b, id) == [kind |-> kind, b |-> b, id |-> id]

DefUse(def, uses) == [def |-> def, uses |-> uses]

\* the map with key mapped to val, other keys as in m
MapInsert(m, key, val) == (key :> val) @@ m

DuOnBegin(f) ==
    [f |-> f,
     info |-> [sym \in Range(f.param) |-> DefUse(DefPos("param", 0, 0), <<>>)]]

DuOnUse(st, b, i, k) ==
    LET val == st.f.inst[b][i].src[k]
        id == st.f.inst[b][i].id
    IN IF ~IsLocalVal(val) THEN st
       ELSE IF val.s \in DOMAIN st.info
       THEN [st EXCEPT !.info[val.s].uses = Append(@, id)]
       ELSE [st EXCEPT !.info = MapInsert(@, val.s, DefUse(DefPos("none", 0, 0), <<id>>))]

DuOnDef(st, b, i) ==
    LET ins == st.f.inst[b][i]
    IN IF ~is_local_var(ins.dst) THEN st
       ELSE [st EXCEPT !.info = MapInsert(@, ins.dst, DefUse(DefPos("inst", b, ins.id), <<>>))]

DuOnInstr(st, b, i) == ValueOnInstr(DuOnUse, DuOnDef, st, b, i)

DuOnSuccPhi(st, this, s, j) == ValueOnSuccPhi(DuOnUse, st, this, s, j)

DuOnEvent(st, e) ==
    IF e.ev = "enter" THEN InstOnEnter(DuOnInstr, DuOnSuccPhi, st, e.b) ELSE st

\* def_use after assert_ssa: the map from symbol to definition and uses
def_use(f) == FoldLeft(DuOnEvent, DuOnBegin(f), walk_dom(f)).info

\* the first position of x in s, 0 when there is none
Position(s, x) ==
    IF Contains(s, x) THEN CHOOSE i \in 1..Len(s) : s[i] = x /\ \A j \in 1..(i - 1) : s[j] # x
    ELSE 0

RemoveAt(s, i) == SubSeq(s, 1, i - 1) \o SubSeq(s, i + 1, Len(s))

\* variant of dce_remove without the rule for circular references
dce_remove_ordinary_only(f, du, sym) ==
    LET d == du[sym].def
        uses == du[sym].uses
    IN IF d.kind # "inst" THEN <<>>
       ELSE IF uses = <<>> /\ ~has_side_effect(InstById(f, d.id)) THEN <<d.id>>
       ELSE <<>>
\* elim_dead_code, lines 560-584: the instructions to remove for the picked sym
dce_remove(f, du, sym) ==
    LET d == du[sym].def
        uses == du[sym].uses
        other == InstById(f, uses[1])
    IN IF d.kind # "inst" THEN <<>>
       ELSE IF is_phi(InstById(f, d.id)) /\ Len(uses) = 1
       THEN IF HasDst(other) /\ is_local_var(other.dst)
               /\ Len(du[other.dst].uses) = 1 /\ du[other.dst].uses[1] = d.id
            THEN <<d.id, other.id>>
            ELSE <<>>
       ELSE IF uses = <<>> /\ ~has_side_effect(InstById(f, d.id)) THEN <<d.id>>
       ELSE <<>>

\* variant of dce_mark that does not put the sources back on the worklist
dce_mark_no_requeue(f, st, id) ==
    LET operand(t, val) ==
            IF t.panic \/ ~IsLocalVal(val) THEN t
            ELSE IF val.s \notin DOMAIN t.du THEN [t EXCEPT !.panic = TRUE]
            ELSE IF Position(t.du[val.s].uses, id) = 0 THEN t
            ELSE [t EXCEPT !.du[val.s].uses = RemoveAt(@, Position(@, id))]
    IN FoldLeft(operand, [st EXCEPT !.marked = @ \cup {id}], InstById(f, id).src)
\* elim_dead_code, lines 587-603: mark one instruction; indexing the map with a
\* symbol that is not a key panics
dce_mark(f, st, id) ==
    LET operand(t, val) ==
            IF t.panic \/ ~IsLocalVal(val) THEN t
            ELSE IF val.s \notin DOMAIN t.du THEN [t EXCEPT !.panic = TRUE]
            ELSE IF Position(t.du[val.s].uses, id) = 0 THEN t
            ELSE [t EXCEPT !.du[val.s].uses = RemoveAt(@, Position(@, id)),
                           !.work = @ \cup {val.s}]
    IN FoldLeft(operand, [st EXCEPT !.marked = @ \cup {id}], InstById(f, id).src)

\* elim_dead_code, lines 556-604: one iteration of the worklist loop, sym picked
dce_pick(f, st, sym) ==
    FoldLeft(LAMBDA t, id : IF t.panic THEN t ELSE dce_mark(f, t, id),
             [st EXCEPT !.work = @ \ {sym}], dce_remove(f, st.du, sym))

\* elim_dead_code, lines 550-554: the loop state before the first pick
dce_begin(f) ==
    [du |-> def_use(f), marked |-> {}, work |-> DOMAIN def_use(f), panic |-> FALSE]

\* elim_dead_code, lines 607-614: drop the marked instructions and their names
dce_sweep(f, marked) ==
    LET sweep(g, b) ==
            [g EXCEPT !.inst[b] = SelectSeq(@, LAMBDA ins : ins.id \notin marked),
                      !.scope = FoldLeft(LAMBDA sc, ins :
                                             IF ins.id \in marked /\ HasDst(ins)
                                             THEN ScopeRemove(sc, ins.dst) ELSE sc,
                                         @, g.inst[b])]
    IN FoldLeft(sweep, f, iter_dom(f))

(***************************************************************************)
(* Copy propagation.                                                       *)
(***************************************************************************)
\* CopyListener: map from symbol to value, def the frames of symbols recorded
\* per entered block, rm the movs to drop
CopyOnBegin(f) == [f |-> f, map |-> <<>>, def |-> <<>>, rm |-> {}]

\* the map without key
MapRemove(m, key) == [x \in (DOMAIN m) \ {key} |-> m[x]]

CopyOnUse(st, b, i, k) ==
    LET val == st.f.inst[b][i].src[k]
    IN IF val.t = "var" /\ val.s \in DOMAIN st.map
       THEN [st EXCEPT !.f.inst[b][i].src[k] = st.map[val.s]]
       ELSE st

CopyOnDef(st, b, i) == st

CopyOnInstr(st, b, i) ==
    LET ins == st.f.inst[b][i]
    IN IF ins.op = "mov"
       THEN [st EXCEPT !.map = MapInsert(@, ins.dst, ins.src[1]),
                       !.def[Len(st.def)] = Append(@, ins.dst),
                       !.rm = @ \cup {ins.id}]
       ELSE ValueOnInstr(CopyOnUse, CopyOnDef, st, b, i)

CopyOnSuccPhi(st, this, s, j) == ValueOnSuccPhi(CopyOnUse, st, this, s, j)

CopyOnEnter(st, b) ==
    LET walked == InstOnEnter(CopyOnInstr, CopyOnSuccPhi, [st EXCEPT !.def = Append(@, <<>>)], b)
    IN [walked EXCEPT !.f.inst[b] = SelectSeq(@, LAMBDA ins : ins.id \notin walked.rm)]

CopyOnExit(st, b) ==
    [st EXCEPT !.map = FoldLeft(MapRemove, @, st.def[Len(st.def)]),
               !.def = SubSeq(@, 1, Len(@) - 1)]

CopyOnEvent(st, e) == IF e.ev = "enter" THEN CopyOnEnter(st, e.b) ELSE CopyOnExit(st, e.b)

\* CopyProp::opt_fn: the function after the walk
copy_prop(f) == FoldLeft(CopyOnEvent, CopyOnBegin(f), walk_dom(f)).f

(***************************************************************************)
(* The passes as a state machine: a built function, then up to MaxCalls    *)
(* calls of to_ssa, elim_dead_code or copy propagation.  A panic ends the  *)
(* run.  hist.before is the function as the latest call found it, hist.ops *)
(* the calls made so far, hist.steps the steps of the latest to_ssa.       *)
(***************************************************************************)
MaxCalls == 2

IdlePass ==
    [op |-> "none", calls |-> 0, k |-> 0, ipwork |-> {}, ins |-> {},
     du |-> <<>>, marked |-> {}, work |-> {}]

InitPass ==
    /\ fn \in BuiltFns
    /\ pc = "idle"
    /\ bld = NoBld
    /\ pass = IdlePass
    /\ hist = [input |-> fn, before |-> fn, ops |-> <<>>, steps |-> <<>>]

CanCall == pc = "idle" /\ pass.calls < MaxCalls

Called(op, steps) ==
    hist' = [hist EXCEPT !.before = fn, !.ops = Append(@, op), !.steps = steps]

\* to_ssa, lines 209-211: return at once on an SSA function, else compute the
\* dominance frontiers and start insert_phi with the first symbol of the scope
ToSsa ==
    /\ CanCall
    /\ IF fn.ssa
       THEN /\ pc' = "idle"
            /\ pass' = [IdlePass EXCEPT !.op = "to_ssa", !.calls = pass.calls + 1]
            /\ Called("to_ssa", <<>>)
       ELSE /\ pc' = "insert_phi"
            /\ pass' = [IdlePass EXCEPT !.op = "to_ssa", !.calls = pass.calls + 1, !.k = 1,
                                        !.ipwork = def_site(fn, fn.scope[1])]
            /\ Called("to_ssa", <<"compute_df">>)
    /\ UNCHANGED <<fn, bld>>

\* insert_phi, lines 241-260: one block picked from the worklist
InsertPhiPick ==
    /\ pc = "insert_phi"
    /\ \E block \in pass.ipwork :
           LET r == insert_phi_pick(fn, hist.before, fn.scope[pass.k], pass.ipwork,
                                    pass.ins, block)
           IN /\ fn' = r.f
              /\ pass' = [pass EXCEPT !.ipwork = r.work, !.ins = r.ins]
    /\ UNCHANGED <<pc, bld, hist>>

\* insert_phi, lines 238-241: the worklist of a symbol is drained
InsertPhiNext ==
    /\ pc = "insert_phi"
    /\ pass.ipwork = {}
    /\ IF pass.k < Len(fn.scope)
       THEN /\ pass' = [pass EXCEPT !.k = @ + 1, !.ins = {},
                                    !.ipwork = def_site(hist.before, fn.scope[pass.k + 1])]
            /\ UNCHANGED <<pc, hist>>
       ELSE /\ pc' = "rename"
            /\ hist' = [hist EXCEPT !.steps = Append(@, "insert_phi")]
            /\ pass' = pass
    /\ UNCHANGED <<fn, bld>>

\* to_ssa, line 212
Rename ==
    /\ pc = "rename"
    /\ fn' = rename(fn)
    /\ pc' = "dce"
    /\ hist' = [hist EXCEPT !.steps = Append(@, "rename")]
    /\ UNCHANGED <<bld, pass>>

\* elim_dead_code, lines 547-554: assert_ssa, then the def-use map and worklist
DceEnter ==
    IF ~fn.ssa
    THEN pc' = "panic" /\ pass' = pass
    ELSE /\ pc' = "dce_loop"
         /\ pass' = [pass EXCEPT !.du = dce_begin(fn).du, !.marked = {},
                                 !.work = dce_begin(fn).work]

\* to_ssa, line 213
ToSsaElimDeadCode ==
    /\ pc = "dce"
    /\ DceEnter
    /\ hist' = [hist EXCEPT !.steps = Append(@, "elim_dead_code")]
    /\ UNCHANGED <<fn, bld>>

ElimDeadCode ==
    /\ CanCall
    /\ IF ~fn.ssa
       THEN pc' = "panic" /\ pass' = [IdlePass EXCEPT !.op = "elim_dead_code",
                                                      !.calls = pass.calls + 1]
       ELSE /\ pc' = "dce_loop"
            /\ pass' = [IdlePass EXCEPT !.op = "elim_dead_code", !.calls = pass.calls + 1,
                                        !.du = dce_begin(fn).du,
                                        !.work = dce_begin(fn).work]
    /\ Called("elim_dead_code", <<>>)
    /\ UNCHANGED <<fn, bld>>

\* elim_dead_code, lines 556-604: one symbol picked from the worklist
DcePick ==
    /\ pc = "dce_loop"
    /\ \E sym \in pass.work :
           LET t == dce_pick(fn, [du |-> pass.du, marked |-> pass.marked,
                                  work |-> pass.work, panic |-> FALSE], sym)
           IN /\ pass' = [pass EXCEPT !.du = t.du, !.marked = t.marked, !.work = t.work]
              /\ pc' = IF t.panic THEN "panic" ELSE "dce_loop"
    /\ UNCHANGED <<fn, bld, hist>>

\* elim_dead_code, lines 607-614, and to_ssa, line 214, when to_ssa made the call
DceSweep ==
    /\ pc = "dce_loop"
    /\ pass.work = {}
    /\ fn' = IF pass.op = "to_ssa"
             THEN [dce_sweep(fn, pass.marked) EXCEPT !.ssa = TRUE]
             ELSE dce_sweep(fn, pass.marked)
    /\ hist' = IF pass.op = "to_ssa"
               THEN [hist EXCEPT !.steps = Append(@, "set_flag")]
               ELSE hist
    /\ pc' = "idle"
    /\ UNCHANGED <<bld, pass>>

\* CopyProp::opt_fn
CopyProp ==
    /\ CanCall
    /\ fn' = copy_prop(fn)
    /\ pass' = [IdlePass EXCEPT !.op = "copy_prop", !.calls = pass.calls + 1]
    /\ Called("copy_prop", <<>>)
    /\ UNCHANGED <<pc, bld>>

NextPass ==
    \/ ToSsa
    \/ InsertPhiPick
    \/ InsertPhiNext
    \/ Rename
    \/ ToSsaElimDeadCode
    \/ ElimDeadCode
    \/ DcePick
    \/ DceSweep
    \/ CopyProp

SpecPass == InitPass /\ [][NextPass]_vars

(***************************************************************************)
(* Claims about the builder, checked under SpecBuild.                      *)
(***************************************************************************)
\* the phi at index i of block b has exactly one pair for each predecessor of b
\* and no pair for any other block
PhiMatchesPreds(f, b, i) ==
    /\ \A p \in Range(f.pred[b]) :
           Cardinality({k \in 1..Len(f.inst[b][i].pred) : f.inst[b][i].pred[k] = p}) = 1
    /\ \A k \in 1..Len(f.inst[b][i].pred) : Contains(f.pred[b], f.inst[b][i].pred[k])

AcceptedAsSsa == pc = "ok" /\ bld.may_ssa

\* C8: every function the builder accepts as SSA has, for each phi of each
\* reachable block, exactly one pair per predecessor: none missing, none
\* twice, none naming a block that is not a predecessor.
C8_AcceptedPhisMatchPreds ==
    AcceptedAsSsa =>
        \A b \in Reachable(fn) : \A i \in 1..Len(fn.inst[b]) :
            is_phi(fn.inst[b][i]) => PhiMatchesPreds(fn, b, i)

EndsWithCtrl(f, b) ==
    Len(f.inst[b]) > 0 /\ f.inst[b][Len(f.inst[b])].op \in {"jmp", "br", "ret"}

\* a step of build_body that lifts nothing: the terms of the block are exhausted
TermsExhausted == pc = "lift" /\ pc' # "lift" /\ fn' = fn /\ bld'.lifted = bld.lifted

BlockSwitch == pc = "lift" /\ pc' = "lift" /\ bld'.cur # bld.cur

\* C9: every block of a successfully built function ends with jmp, br or
\* ret; when the terms of a block are exhausted and its last lifted
\* instruction is not one of these, the build fails with "block X is not
\* complete" naming that block.
C9_BlocksComplete ==
    [][/\ (pc' \in {"verify", "ok"} => \A b \in BlocksOf(fn') : EndsWithCtrl(fn', b))
       /\ (BlockSwitch => EndsWithCtrl(fn, bld.cur))
       /\ ((TermsExhausted /\ ~EndsWithCtrl(fn, bld.cur)) =>
              /\ pc' = "err"
              /\ bld'.err = Err("block is not complete", "", fn.name[bld.cur]))]_vars

C9_Witness ==
    /\ pc = "ok"
    /\ Len(fn.inst) = NB
    /\ \E b \in BlocksOf(fn) : Len(fn.inst[b]) > 1

CfgSymmetric(f) ==
    \A a \in BlocksOf(f), b \in BlocksOf(f) : Contains(f.succ[a], b) <=> Contains(f.pred[b], a)

TargetsAreSuccs(f) ==
    \A a \in BlocksOf(f) : \A i \in 1..Len(f.inst[a]) :
        f.inst[a][i].op \in {"jmp", "br"} =>
            \A k \in 1..Len(f.inst[a][i].tgt) : Contains(f.succ[a], f.inst[a][i].tgt[k])

\* C10: after any sequence of jmp / br liftings the control-flow graph is
\* symmetric (B in A.succ iff A in B.pred) and every jmp or br present in a
\* block A has its targets in A.succ.
C10_CfgSymmetric == CfgSymmetric(fn) /\ TargetsAreSuccs(fn)

C10_Witness ==
    /\ pc \in {"lift", "verify", "ok"}
    /\ \E a \in BlocksOf(fn) :
           /\ \E i \in 1..Len(fn.inst[a]) :
                  fn.inst[a][i].op = "br" /\ fn.inst[a][i].tgt[1] # fn.inst[a][i].tgt[2]
           /\ Len(fn.succ[a]) = 2
    /\ \E a \in BlocksOf(fn) : \E i \in 1..Len(fn.inst[a]) : fn.inst[a][i].op = "jmp"

(***************************************************************************)
(* The SSA property, stated on a function.                                 *)
(***************************************************************************)
\* the positions <<b, i>> of the instructions of f
Positions(f) == UNION {{<<b, i>> : i \in 1..Len(f.inst[b])} : b \in BlocksOf(f)}

InstAt(f, pos) == f.inst[pos[1]][pos[2]]

\* the local symbols that occur in f
LocalsOf(f) ==
    Range(f.param)
    \cup {InstAt(f, pos).dst : pos \in {q \in Positions(f) : is_local_var(InstAt(f, q).dst)}}
    \cup UNION {{val.s : val \in {v \in Range(InstAt(f, pos).src) : IsLocalVal(v)}} :
                   pos \in Positions(f)}

\* the instructions that define s
DefsOf(f, s) == {pos \in Positions(f) : InstAt(f, pos).dst = s}

DefCount(f, s) ==
    Cardinality(DefsOf(f, s)) + Cardinality({i \in 1..Len(f.param) : f.param[i] = s})

\* the definition of s at def reaches operand k of the instruction at pos: a
\* phi source is used at the end of its paired predecessor
DefReaches(f, def, pos, k) ==
    IF is_phi(InstAt(f, pos))
    THEN Dominates(f, def[1], InstAt(f, pos).pred[k])
    ELSE (def[1] = pos[1] /\ def[2] < pos[2]) \/ StrictDom(f, def[1], pos[1])

\* every operand that names a local symbol is reached by a definition of it
UsesDominated(f) ==
    \A pos \in Positions(f) : \A k \in 1..Len(InstAt(f, pos).src) :
        IsLocalVal(InstAt(f, pos).src[k]) =>
            \/ Contains(f.param, InstAt(f, pos).src[k].s)
            \/ \E def \in DefsOf(f, InstAt(f, pos).src[k].s) : DefReaches(f, def, pos, k)

SingleDefs(f) == \A s \in LocalsOf(f) : DefCount(f, s) = 1

PhisMatchPreds(f) ==
    \A pos \in Positions(f) :
        (is_phi(InstAt(f, pos)) /\ pos[1] \in Reachable(f)) =>
            PhiMatchesPreds(f, pos[1], pos[2])

PhisOrdered(f) ==
    \A pos \in Positions(f) :
        is_phi(InstAt(f, pos)) =>
            \A k \in 1..(Len(InstAt(f, pos).pred) - 1) :
                f.name[InstAt(f, pos).pred[k]] <= f.name[InstAt(f, pos).pred[k + 1]]

\* f is in SSA form
IsSsa(f) == f.ssa /\ SingleDefs(f) /\ UsesDominated(f) /\ PhisMatchPreds(f)

(***************************************************************************)
(* Claims about the passes, checked under SpecPass.                        *)
(***************************************************************************)
LastOp == IF hist.ops = <<>> THEN "none" ELSE hist.ops[Len(hist.ops)]

\* the latest call has returned
Returned(op) == pc = "idle" /\ LastOp = op

\* the latest call was made on the function as the builder returned it
OnBuilt == hist.before = hist.input

ToSsaSteps == <<"compute_df", "insert_phi", "rename", "elim_dead_code", "set_flag">>

\* C1: to_ssa on a built function whose SSA flag is false computes the
\* dominance frontiers, inserts phis, renames, runs dead-code elimination and
\* sets the flag, in that order; the call runs to completion and the flag is
\* true afterwards.
C1_ToSsaRunsToCompletion ==
    (pass.op = "to_ssa" /\ OnBuilt /\ ~hist.before.ssa) =>
        /\ pc # "panic"
        /\ hist.steps = SubSeq(ToSsaSteps, 1, Len(hist.steps))
        /\ (pc = "idle" => fn.ssa /\ hist.steps = ToSsaSteps)

\* C2: after to_ssa on any built function every local symbol that occurs in
\* it has exactly one definition, and every use (a phi source at the end of
\* its paired predecessor) is dominated by that definition.
C2_ToSsaGivesSingleDominatingDefs ==
    (Returned("to_ssa") /\ OnBuilt) => SingleDefs(fn) /\ UsesDominated(fn)

\* C3: after to_ssa every remaining phi of a block B has exactly one pair for
\* each predecessor of B and no other pair, and the pairs are ordered by the
\* name of the predecessor.
C3_ToSsaPhisMatchPreds ==
    (Returned("to_ssa") /\ OnBuilt) => PhisMatchPreds(fn) /\ PhisOrdered(fn)

\* two calls of elim_dead_code, one immediately after the other, have returned
DceTwice ==
    /\ pc = "idle"
    /\ Len(hist.ops) >= 2
    /\ hist.ops[Len(hist.ops)] = "elim_dead_code"
    /\ hist.ops[Len(hist.ops) - 1] = "elim_dead_code"

\* C4: elim_dead_code is idempotent: for every SSA function and every pick
\* order, a second run immediately after the first removes no instruction
\* and changes neither the instruction lists nor the scope.
C4_DceIdempotent ==
    (DceTwice /\ IsSsa(hist.input)) =>
        /\ pass.marked = {}
        /\ fn.inst = hist.before.inst
        /\ fn.scope = hist.before.scope

\* the worklist loop of elim_dead_code run with one fixed pick order
RECURSIVE DceDrain(_, _)
DceDrain(f, st) ==
    IF st.work = {} \/ st.panic THEN st
    ELSE DceDrain(f, dce_pick(f, st, CHOOSE sym \in st.work : TRUE))

\* C5: the instructions removed by elim_dead_code do not depend on the pick
\* order: every order yields the same marked set and the same instruction
\* lists as any other order on the same input.
C5_DceOrderIndependent ==
    (Returned("elim_dead_code") /\ IsSsa(hist.before)) =>
        /\ pass.marked = DceDrain(hist.before, dce_begin(hist.before)).marked
        /\ fn.inst = dce_sweep(hist.before,
                               DceDrain(hist.before, dce_begin(hist.before)).marked).inst

\* the movs of the dominator-tree blocks of f
MovsOf(f) == {pos \in Positions(f) : pos[1] \in Reachable(f) /\ InstAt(f, pos).op = "mov"}

\* C6: after copy propagation on an SSA function no mov remains in a block of
\* the dominator tree, and every operand slot (phi sources included) that
\* referred to the destination of a mov holds the value that was the source
\* of that mov.
C6_CopyPropReplacesMovUses ==
    (Returned("copy_prop") /\ IsSsa(hist.before)) =>
        /\ MovsOf(fn) = {}
        /\ \A old \in Positions(hist.before), new \in Positions(fn) :
               InstAt(hist.before, old).id = InstAt(fn, new).id =>
                   \A k \in 1..Len(InstAt(hist.before, old).src) :
                       \A m \in MovsOf(hist.before) :
                           InstAt(hist.before, old).src[k] = Var(InstAt(hist.before, m).dst)
                               => \E n \in MovsOf(hist.before) :
                                      /\ InstAt(hist.before, n).dst = InstAt(hist.before, m).dst
                                      /\ InstAt(fn, new).src[k] = InstAt(hist.before, n).src[1]

\* C7: copy propagation preserves SSA dominance: on a function with the SSA
\* property, afterwards every local operand of every remaining instruction
\* is defined by a parameter or by a remaining instruction that dominates
\* the use.
C7_CopyPropKeepsDominance ==
    (Returned("copy_prop") /\ IsSsa(hist.before)) => UsesDominated(fn)

(***************************************************************************)
(* Claims about the lifting of one instruction, checked under SpecLift.    *)
(***************************************************************************)
\* the symbol that token tok names in function f, NoSym when there is none
Named(f, tok) ==
    IF tok.t = "global"
    THEN IF ScopeHas(GlobalScope, tok.n) THEN ScopeFind(GlobalScope, tok.n) ELSE NoSym
    ELSE IF ScopeHas(f.scope, tok.n) THEN ScopeFind(f.scope, tok.n) ELSE NoSym

\* the term lifted last is a binary operation with a comparator
LiftedCmp == pass.term.t = "assign" /\ pass.term.op \in {"eq", "ne", "lt", "le", "gt", "ge"}

RECURSIVE WalkTy(_, _)
WalkTy(ty, toks) ==
    IF toks = <<>> THEN ty
    ELSE IF TypeDef(ty).k = "array"
    THEN IF Head(toks).t = "int" /\ ~(0 <= Head(toks).c /\ Head(toks).c < TypeDef(ty).len)
         THEN "fail" ELSE WalkTy(TypeDef(ty).tgt, Tail(toks))
    ELSE IF TypeDef(ty).k = "struct"
    THEN IF Head(toks).t = "int" /\ 0 <= Head(toks).c /\ Head(toks).c < Len(TypeDef(ty).field)
         THEN WalkTy(TypeDef(ty).field[Head(toks).c + 1], Tail(toks)) ELSE "fail"
    ELSE "fail"

\* the term lifted last is a ptr whose base names a symbol
LiftedPtr ==
    /\ pass.term.t = "ptr"
    /\ Len(pass.term.opd) \in {1, 2}
    /\ Named(hist.input, pass.term.opd[1]) # NoSym

BaseTy == Named(hist.input, pass.term.opd[1]).ty

\* C12: a ptr instruction that is lifted has the destination type Ptr(T), T
\* reached from the pointee type of the base by the indices in order; the
\* lifting fails when the base is not a pointer, when an index steps into a
\* non-aggregate, when a struct index is not a constant, and when a constant
\* index is not within the field count or the array length (an array index
\* that is not a constant is accepted).
C12_PtrDstType ==
    LiftedPtr =>
        /\ pc = "lift" =>
               /\ TypeDef(BaseTy).k = "ptr"
               /\ WalkTy(TypeDef(BaseTy).tgt, pass.term.list) # "fail"
               /\ fn.inst[1][Len(fn.inst[1])].op = "ptr"
               /\ fn.inst[1][Len(fn.inst[1])].dst.ty =
                      PtrTo(WalkTy(TypeDef(BaseTy).tgt, pass.term.list))
        /\ TypeDef(BaseTy).k # "ptr" => pc = "err"
        /\ (TypeDef(BaseTy).k = "ptr"
               /\ WalkTy(TypeDef(BaseTy).tgt, pass.term.list) = "fail") => pc = "err"

\* a ptr into field 1 of the struct, then into the array by a variable index
C12_Witness ==
    /\ LiftedPtr /\ pc = "lift"
    /\ BaseTy = "*S"
    /\ pass.term.list = <<Integer(1), Ln>>
    /\ fn.inst[1][Len(fn.inst[1])].dst.ty = "*i64"

\* the term lifted last is an operator, or a call of function h
LiftedOp == pass.term.t = "assign" \/ (pass.term.t = "call" /\ pass.term.op = "h")

\* the types of the operands that the term lifted last expects
ExpTys ==
    IF pass.term.t = "call" THEN GlobalFns[1].param
    ELSE IF pass.term.op = "mov" THEN <<pass.term.ty>>
    ELSE <<pass.term.ty, pass.term.ty>>

\* the type that the destination of the term lifted last is created with
DstTy == IF LiftedCmp THEN "i1" ELSE pass.term.ty

\* the checks that come before the operand list pass: the operator is legal
\* for the type, the destination is new or has the type it is created with
PreOk ==
    /\ pass.term.t = "assign" => is_avail_for(pass.term.op, pass.term.ty)
    /\ \/ pass.term.dst = NoTok
       \/ pass.term.dst.t = "local" /\ Named(hist.input, pass.term.dst) = NoSym
       \/ Named(hist.input, pass.term.dst) # NoSym
              /\ Named(hist.input, pass.term.dst).ty = DstTy

\* the operands that fail the check against their expected type
BadOpds == {i \in 1..Len(ExpTys) : Failed(create_def_val(fn, ExpTys[i], pass.term.opd[i]))}

\* with as many operands as expected: the error is that of the first operand
\* which fails its check; without such an operand the check of the operand
\* list passes (only the return type of a call can still fail)
OpdsCheckedInOrder ==
    IF BadOpds # {}
    THEN /\ pc = "err"
         /\ \E i \in BadOpds :
                /\ \A j \in BadOpds : i <= j
                /\ bld.err = create_def_val(fn, ExpTys[i], pass.term.opd[i]).err
    ELSE pc = "lift" \/ (pass.term.t = "call" /\ bld.err.msg = "expect type, got")

\* C15 as stated: an operator or call that expects k operands and is given
\* m # k operands fails with "expect k operand(s), got m" and appends nothing;
\* with m = k the operands are checked against their types in order.
C15_ArityErrorAlways ==
    LiftedOp =>
        IF Len(pass.term.opd) # Len(ExpTys)
        THEN /\ pc = "err"
             /\ bld.err = ErrArity(Len(ExpTys), Len(pass.term.opd))
             /\ fn.inst = hist.input.inst
        ELSE PreOk => OpdsCheckedInOrder

\* C15 amended: with m # k the lifting fails and appends nothing, and the
\* error is "expect k operand(s), got m" when the checks that come before the
\* operand list pass; with m = k the operands are checked in order.
C15_ArityErrorAfterDst ==
    LiftedOp =>
        IF Len(pass.term.opd) # Len(ExpTys)
        THEN /\ pc = "err"
             /\ fn.inst = hist.input.inst
             /\ PreOk => bld.err = ErrArity(Len(ExpTys), Len(pass.term.opd))
        ELSE PreOk => OpdsCheckedInOrder

\* add with three operands failed with the arity error
C15_Witness ==
    /\ pass.term.t = "assign" /\ pass.term.op = "add" /\ Len(pass.term.opd) = 3
    /\ pc = "err"
    /\ bld.err = ErrArity(2, 3)

(***************************************************************************)
(* Claims about build_body, checked under SpecBuild.                       *)
(***************************************************************************)
\* the phis of block b are a prefix of its instruction list
PhiPrefix(f, b) ==
    \A i \in 1..Len(f.inst[b]) :
        is_phi(f.inst[b][i]) => \A j \in 1..i : is_phi(f.inst[b][j])

HasNonPhi(f, b) == \E i \in 1..Len(f.inst[b]) : ~is_phi(f.inst[b][i])

\* the step lifts the phi that build_instr returned as r
PhiLifted(r) == ~Failed(r) /\ Becomes(after_lift(fn, bld, r))

\* C13: in every block of the function being built the phis are a prefix of
\* the instruction list; a phi lifted after a non-phi of the same block makes
\* the build fail with "non-phi instruction found before phi's", and nothing
\* is appended.
C13_PhisArePrefix ==
    [][/\ \A b \in BlocksOf(fn') : PhiPrefix(fn', b)
       /\ (CanLift /\ HasNonPhi(fn, bld.cur)) =>
              \A list \in PhiLists :
                  PhiLifted(build_phi_instr(fn, NextId, bld.labels, LocalId("x"), "i1", list))
                      => /\ pc' = "err"
                         /\ bld'.err = Err("non-phi instruction found before phi's", "",
                                           fn.name[bld.cur])
                         /\ fn'.inst = fn.inst]_vars

\* the build failed on a phi that stands after a non-phi
C13_Witness ==
    /\ pc = "err"
    /\ bld.err.msg = "non-phi instruction found before phi's"
    /\ HasNonPhi(fn, bld.cur)

\* f carries the ssa attribute or one of its instructions is a phi
AssumedSsa(f) == f.attr \/ \E ins \in AllInsts(f) : is_phi(ins)

\* C14: after the body is lifted the verifier runs (and its on_end sets the
\* SSA flag) if and only if the function carries the ssa attribute or a
\* lifted instruction is a phi; a non-empty error list fails the build with
\* its first message, and an empty list, or no verifier run, makes the body
\* build succeed.
C14_VerifierRunsWhenAssumed ==
    [][(pc = "verify" /\ pc' # "verify") =>
          /\ fn'.ssa <=> AssumedSsa(fn)
          /\ (AssumedSsa(fn) /\ VerifierWalk(fn).err # <<>>) =>
                 pc' = "err" /\ bld'.err = VerifierWalk(fn).err[1]
          /\ (~AssumedSsa(fn) \/ VerifierWalk(fn).err = <<>>) =>
                 pc' = "ok" /\ bld'.err = NoErr]_vars

\* a function without the ssa attribute failed in the verifier because of a phi
C14_Witness ==
    /\ pc = "err" /\ fn.ssa /\ ~fn.attr
    /\ bld.err.msg = "phi operand not found for"

(***************************************************************************)
(* Claims about the verifier's walk, checked under SpecVerify.             *)
(***************************************************************************)
\* the walk made one call at a time records the errors of the whole walk
WalkAgrees == pc = "done" => pass.st.err = VerifierWalk(hist.input).err

\* the step visits one instruction of the block, or one phi of a successor
InstrStep == pc = "walk" /\ pass'.at = pass.at /\ pass'.i = pass.i + 1

SuccPhiStep == pc = "walk" /\ pass'.at = pass.at /\ pass'.j = pass.j + 1

\* the errors that the step records
NewErrs == SubSeq(pass'.st.err, Len(pass.st.err) + 1, Len(pass'.st.err))

\* the sources that the step visits as uses, in order
UsesVisited ==
    IF InstrStep
    THEN LET ins == fn.inst[CurBlock][pass.i + 1]
         IN IF is_phi(ins) THEN <<>> ELSE ins.src
    ELSE LET sj == SuccPhis(fn, CurBlock)[pass.j + 1]
             phi == fn.inst[sj[1]][sj[2]]
             ks == SelectSeq(Indices(phi.src), LAMBDA k : phi.pred[k] = CurBlock)
         IN [n \in 1..Len(ks) |-> phi.src[ks[n]]]

InNoFrame(sym) == \A n \in 1..Len(pass.st.avail) : ~Contains(pass.st.avail[n], sym)

\* the instructions <<block, index>> above the use: the earlier ones of the
\* current block and those of its dominator-tree ancestors
SitesAbove ==
    {<<CurBlock, n>> : n \in 1..pass.i}
    \cup UNION {{<<a, n>> : n \in 1..Len(fn.inst[a])} :
                    a \in {d \in BlocksOf(fn) : StrictDom(fn, d, CurBlock)}}

\* the index of the enter event of block a in the walk
EnterAt(a) == CHOOSE e \in 1..Len(pass.walk) : pass.walk[e] = [ev |-> "enter", b |-> a]

\* the instructions visited before the instruction at site
SitesBefore(site) ==
    {<<a, n>> \in UNION {{<<c, m>> : m \in 1..Len(fn.inst[c])} :
                            c \in {pass.walk[e].b : e \in 1..Len(pass.walk)}} :
        \/ a = site[1] /\ n < site[2]
        \/ a # site[1] /\ EnterAt(a) < EnterAt(site[1])}

Defines(site, sym) == fn.inst[site[1]][site[2]].dst = sym

DefinedAbove(sym) ==
    sym \in Range(fn.param) \/ \E site \in SitesAbove : Defines(site, sym)

\* as DefinedAbove, by the definition of sym that the walk visits first
FirstDefinedAbove(sym) ==
    \/ sym \in Range(fn.param)
    \/ \E site \in SitesAbove :
          /\ Defines(site, sym)
          /\ \A other \in SitesBefore(site) : ~Defines(other, sym)

\* the errors "variable X is used before defined" for the uses visited whose
\* symbol the walk has in no frame
UsedBeforeDefined ==
    LET bad == SelectSeq(UsesVisited, LAMBDA v : IsLocalVal(v) /\ InNoFrame(v.s))
    IN [n \in 1..Len(bad) |-> Err("is used before defined", bad[n].s.n, 0)]

\* C16 as stated: a use of a local variable X records "variable X is used
\* before defined" iff X is in no frame of the availability stack, that is iff
\* X is neither a parameter nor defined by an earlier instruction of the
\* current block or of a dominator-tree ancestor of it.
C16_UseBeforeDefIffNotDefinedAbove ==
    [][(InstrStep \/ SuccPhiStep) =>
          /\ SelectSeq(NewErrs, LAMBDA e : e.msg = "is used before defined") = UsedBeforeDefined
          /\ \A n \in 1..Len(UsesVisited) :
                 IsLocalVal(UsesVisited[n]) =>
                     (InNoFrame(UsesVisited[n].s) <=> ~DefinedAbove(UsesVisited[n].s))]_vars

\* C16 amended: a use of a local variable X records "variable X is used
\* before defined" iff X is in no frame of the availability stack, that is iff
\* X is neither a parameter nor defined, by the first definition of X that
\* the walk visits, by an earlier instruction of the current block or of a
\* dominator-tree ancestor of it.
C16_UseBeforeDefIffNotFirstDefinedAbove ==
    [][(InstrStep \/ SuccPhiStep) =>
          /\ SelectSeq(NewErrs, LAMBDA e : e.msg = "is used before defined") = UsedBeforeDefined
          /\ \A n \in 1..Len(UsesVisited) :
                 IsLocalVal(UsesVisited[n]) =>
                     (InNoFrame(UsesVisited[n].s) <=> ~FirstDefinedAbove(UsesVisited[n].s))]_vars

\* a use was reported whose variable an earlier instruction of the block defines
C16_Witness ==
    /\ pc = "walk"
    /\ pass.at > 0
    /\ pass.walk[pass.at].ev = "enter"
    /\ pass.i > 1
    /\ pass.st.err # <<>>
    /\ LET last == pass.st.err[Len(pass.st.err)]
       IN /\ last.msg = "is used before defined"
          /\ \E v \in Range(fn.inst[CurBlock][pass.i].src) : IsLocalVal(v) /\ v.s.n = last.sym
          /\ \E n \in 1..(pass.i - 1) : fn.inst[CurBlock][n].dst.n = last.sym

\* the destination of the instruction that the step visits
DefVisited == fn.inst[CurBlock][pass.i + 1].dst

\* the destination is a parameter or the destination of an instruction that
\* the walk visited earlier, in whatever block
DefinedEarlier ==
    \/ DefVisited \in Range(fn.param)
    \/ \E site \in SitesBefore(<<CurBlock, pass.i + 1>>) : Defines(site, DefVisited)

AlreadyDefinedErrs == SelectSeq(NewErrs, LAMBDA e : e.msg = "already defined")

\* C17: a definition of local symbol X records "variable X already defined"
\* iff X is a parameter or was the destination of an instruction visited
\* earlier anywhere in the walk; otherwise X is added to the defined-set and
\* to the top availability frame.
C17_AlreadyDefinedIffSeenInWalk ==
    [][(InstrStep /\ is_local_var(DefVisited)) =>
          IF DefinedEarlier
          THEN /\ AlreadyDefinedErrs = <<Err("already defined", DefVisited.n, 0)>>
               /\ pass'.st.def = pass.st.def
               /\ pass'.st.avail = pass.st.avail
          ELSE /\ AlreadyDefinedErrs = <<>>
               /\ pass'.st.def = pass.st.def \cup {DefVisited}
               /\ DefVisited \notin pass.st.def
               /\ pass'.st.avail =
                      [pass.st.avail EXCEPT ![Len(pass.st.avail)] = Append(@, DefVisited)]]_vars

\* a definition was reported whose symbol is defined off the dominator path
C17_Witness ==
    /\ pc = "walk"
    /\ pass.at > 0
    /\ pass.walk[pass.at].ev = "enter"
    /\ pass.i > 0
    /\ pass.st.err # <<>>
    /\ LET last == pass.st.err[Len(pass.st.err)]
           dst == fn.inst[CurBlock][pass.i].dst
       IN /\ last = Err("already defined", dst.n, 0)
          /\ is_local_var(dst)
          /\ InNoFrame(dst)

\* the step enters a block
EnterStep == pc = "walk" /\ pass'.at = pass.at + 1 /\ pass.walk[pass'.at].ev = "enter"

\* the phis of the prefix of block b that have no source pair for block p
PhisWithout(b, p) ==
    {i \in 1..PhiPrefixLen(fn, b) : p \notin Range(fn.inst[b][i].pred)}

\* C18: on entering block B the verifier records one error "phi operand not
\* found for P" for every phi of B's phi prefix and every predecessor P of B
\* that is not the block of a source pair of the phi, and no such error for a
\* phi whose source blocks include every predecessor of B.
C18_PhiOperandNotFound ==
    [][EnterStep =>
          LET b == pass.walk[pass'.at].b
          IN /\ \A n \in 1..Len(NewErrs) : NewErrs[n].msg = "phi operand not found for"
             /\ \A p \in BlocksOf(fn) :
                    Len(SelectSeq(NewErrs, LAMBDA e : e.num = fn.name[p])) =
                        IF p \in Range(fn.pred[b]) THEN Cardinality(PhisWithout(b, p)) ELSE 0]_vars

\* a block was entered whose phi has no source for one of two predecessors
C18_Witness ==
    /\ pc = "walk"
    /\ pass.at > 0
    /\ pass.walk[pass.at].ev = "enter"
    /\ pass.i = 0
    /\ Len(fn.pred[CurBlock]) = 2
    /\ PhiPrefixLen(fn, CurBlock) > 0
    /\ \E p \in Range(fn.pred[CurBlock]) :
          /\ PhisWithout(CurBlock, p) # {}
          /\ pass.st.err # <<>>
          /\ pass.st.err[Len(pass.st.err)] = Err("phi operand not found for", "", fn.name[p])

(***************************************************************************)
(* Claims about insert_phi and rename, checked under SpecPass.             *)
(***************************************************************************)
\* the iterated dominance frontier of the set S of blocks
RECURSIVE IterDf(_, _, _)
IterDf(f, S, T) ==
    LET next == UNION {compute_df(f, b) : b \in S \cup T}
    IN IF next = T THEN T ELSE IterDf(f, S, next)

\* insert_phi has returned
PhisInserted == pc = "rename"

\* the instructions that insert_phi put into block b
NewPhis(b) == SubSeq(fn.inst[b], 1, Len(fn.inst[b]) - Len(hist.before.inst[b]))

\* the function forks into two arms that both assign %y, and joins
YOnBothArms(f) ==
    /\ Len(f.inst) = 4
    /\ f.succ = <<<<2, 3>>, <<4>>, <<4>>, <<>>>>
    /\ \A b \in {2, 3} : \E i \in 1..Len(f.inst[b]) : f.inst[b][i].dst = Local("y", "i64")

\* C19: insert_phi places, for each local symbol v of the scope, a phi for v
\* at the front of exactly the blocks of the iterated dominance frontier of
\* the blocks that define v: at most one phi per block and v, each with one
\* pair (pred, v) per predecessor, all before the original instructions; a
\* function with an assignment to y on each of two arms gets exactly one phi
\* for y, at the join.
C19_PhisAtIteratedFrontier ==
    PhisInserted =>
        /\ \A b \in BlocksOf(fn) :
               LET new == NewPhis(b)
               IN /\ Len(fn.inst[b]) >= Len(hist.before.inst[b])
                  /\ SubSeq(fn.inst[b], Len(new) + 1, Len(fn.inst[b])) = hist.before.inst[b]
                  /\ \A i \in 1..Len(new) :
                         /\ is_phi(new[i])
                         /\ Len(new[i].pred) = Len(fn.pred[b])
                         /\ Range(new[i].pred) = Range(fn.pred[b])
                         /\ \A k \in 1..Len(new[i].src) : new[i].src[k] = Var(new[i].dst)
                         /\ \A j \in 1..Len(new) : new[j].dst = new[i].dst => j = i
                  /\ {new[i].dst : i \in 1..Len(new)} =
                         {v \in Range(hist.before.scope) :
                             /\ is_local_var(v)
                             /\ b \in IterDf(hist.before, def_site(hist.before, v), {})}
        /\ YOnBothArms(hist.before) =>
               /\ Len(SelectSeq(NewPhis(4), LAMBDA ins : ins.dst = Local("y", "i64"))) = 1
               /\ \A b \in 1..3 : \A i \in 1..Len(NewPhis(b)) :
                      NewPhis(b)[i].dst # Local("y", "i64")

\* insert_phi put a phi for y at the join of two arms that assign y
C19_Witness ==
    /\ PhisInserted
    /\ YOnBothArms(hist.before)
    /\ \E i \in 1..Len(NewPhis(4)) : NewPhis(4)[i].dst = Local("y", "i64")

\* the step is the rename walk of to_ssa
RenameStep == pc = "rename" /\ pc' = "dce"

\* the instructions <<block, index>> in the order the walk visits them
SitesInWalk ==
    LET order == iter_dom(fn)
    IN Concat([m \in 1..Len(order) |->
                  [i \in 1..Len(fn.inst[order[m]]) |-> <<order[m], i>>]])

\* the definitions of the local name n, in the order the walk visits them
DefSitesOf(n) ==
    SelectSeq(SitesInWalk, LAMBDA site : LET dst == fn.inst[site[1]][site[2]].dst
                                         IN is_local_var(dst) /\ dst.n = n)

\* the nearest definition of n before index i of block b or in a
\* dominator-tree ancestor of b, <<>> when there is none
RECURSIVE NearestDef(_, _, _)
NearestDef(n, b, i) ==
    LET here == {j \in 1..(i - 1) : is_local_var(fn.inst[b][j].dst) /\ fn.inst[b][j].dst.n = n}
    IN IF here # {} THEN <<b, CHOOSE j \in here : \A m \in here : m <= j>>
       ELSE IF b = fn.ent THEN <<>>
       ELSE NearestDef(n, Idom(fn, b), Len(fn.inst[Idom(fn, b)]) + 1)

\* the value that a use of val holds after the walk, when the nearest
\* definition of its name is the instruction at site
RenamedUse(val, site) ==
    IF ~IsLocalVal(val) THEN val
    ELSE IF site = <<>> THEN Var(Local(val.s.n, val.s.ty))
    ELSE Var(fn'.inst[site[1]][site[2]].dst)

\* a phi source is a use at the end of the predecessor it is paired with
UseRenamed(b, i, k) ==
    LET ins == fn.inst[b][i]
        val == ins.src[k]
        site == IF ~IsLocalVal(val) THEN <<>>
                ELSE IF is_phi(ins)
                THEN NearestDef(val.s.n, ins.pred[k], Len(fn.inst[ins.pred[k]]) + 1)
                ELSE NearestDef(val.s.n, b, i)
    IN fn'.inst[b][i].src[k] = RenamedUse(val, site)

\* the function is one block that reassigns parameter x twice and returns it
ReassignsParamTwice(f) ==
    /\ f.param = <<Local("x", "i64")>>
    /\ Len(f.inst) = 1
    /\ Len(f.inst[1]) = 3
    /\ \A i \in 1..2 : f.inst[1][i].op = "add" /\ f.inst[1][i].dst = Local("x", "i64")
                           /\ f.inst[1][i].src[1] = Var(Local("x", "i64"))

\* C20: after the rename walk the k-th definition of name n visited in
\* dominator-tree order has the destination n.k, and every use of n holds the
\* symbol of the nearest definition of n before it in its block or in a
\* dominator-tree ancestor, the unversioned symbol (which parameters keep)
\* when there is none; in the function that reassigns parameter x twice the
\* second add reads x.1 and ret reads x.2.
C20_RenameVersions ==
    [][RenameStep =>
          /\ \A n \in {fn.scope[m].n : m \in 1..Len(fn.scope)} :
                 \A k \in 1..Len(DefSitesOf(n)) :
                     LET site == DefSitesOf(n)[k]
                         old == fn.inst[site[1]][site[2]].dst
                     IN fn'.inst[site[1]][site[2]].dst = Versioned(Local(n, old.ty), k)
          /\ \A b \in BlocksOf(fn) : \A i \in 1..Len(fn.inst[b]) :
                 \A k \in 1..Len(fn.inst[b][i].src) : UseRenamed(b, i, k)
          /\ \A m \in 1..Len(fn.param) : fn'.param[m] = Local(fn.param[m].n, fn.param[m].ty)
          /\ ReassignsParamTwice(fn) =>
                 /\ fn'.inst[1][2].src[1] = Var(Versioned(Local("x", "i64"), 1))
                 /\ fn'.inst[1][3].src[1] = Var(Versioned(Local("x", "i64"), 2))]_vars

\* the function that reassigns parameter x twice has been renamed
C20_Witness ==
    /\ pc = "dce"
    /\ ReassignsParamTwice(hist.before)
    /\ fn.inst[1][3].op = "ret"
    /\ fn.inst[1][3].src[1] = Var(Versioned(Local("x", "i64"), 2))

(***************************************************************************)
(* Claims about elim_dead_code and copy propagation, checked under         *)
(* SpecPass.                                                               *)
(***************************************************************************)
\* the operand slots <<block, index, operand>> of the dominator-tree blocks of
\* f that hold the local symbol sym
UseSlots(f, sym) ==
    {slot \in UNION {UNION {{<<b, i, k>> : k \in 1..Len(f.inst[b][i].src)} :
                                 i \in 1..Len(f.inst[b])} : b \in Reachable(f)} :
        f.inst[slot[1]][slot[2]].src[slot[3]] = Var(sym)}

\* the instructions of the dominator-tree blocks of f
WalkedInsts(f) == UNION {Range(f.inst[b]) : b \in Reachable(f)}

\* phi defines a symbol whose only use is the instruction u, and the local
\* destination of u has its only use in phi
CircularPair(f, phi, u) ==
    /\ is_phi(phi)
    /\ is_local_var(phi.dst)
    /\ is_local_var(u.dst)
    /\ Cardinality(UseSlots(f, phi.dst)) = 1
    /\ \A slot \in UseSlots(f, phi.dst) : f.inst[slot[1]][slot[2]] = u
    /\ Cardinality(UseSlots(f, u.dst)) = 1
    /\ \A slot \in UseSlots(f, u.dst) : f.inst[slot[1]][slot[2]] = phi

\* C21: elim_dead_code removes a circular phi pair: when a phi defining s has
\* exactly one use, that use is an instruction u with a local destination t,
\* and the only use of t is that phi, the phi and u are both absent from the
\* function after elim_dead_code returns.
C21_DceRemovesCircularPhi ==
    Returned("elim_dead_code") =>
        \A phi \in WalkedInsts(hist.before) : \A u \in WalkedInsts(hist.before) :
            CircularPair(hist.before, phi, u) =>
                \A ins \in AllInsts(fn) : ins.id # phi.id /\ ins.id # u.id

\* elim_dead_code returned on a loop whose phi and step were a circular pair
C21_Witness ==
    /\ Returned("elim_dead_code")
    /\ \E phi \in WalkedInsts(hist.before) : \E u \in WalkedInsts(hist.before) :
           /\ CircularPair(hist.before, phi, u)
           /\ u.op = "add"
           /\ phi.id \in pass.marked
           /\ u.id \in pass.marked

\* the local destination of ins is a source of an instruction of f
UsedIn(f, ins) ==
    \E other \in AllInsts(f) : \E k \in 1..Len(other.src) : other.src[k] = Var(ins.dst)

\* an instruction without side effects whose local destination nothing uses
DeadIn(f, ins) == is_local_var(ins.dst) /\ ~has_side_effect(ins) /\ ~UsedIn(f, ins)

\* C22: elim_dead_code reaches the fixpoint of the ordinary rule: when it
\* returns, no reachable block holds an instruction without side effects whose
\* local destination is used by no remaining instruction.
C22_DceOrdinaryFixpoint ==
    Returned("elim_dead_code") => \A ins \in WalkedInsts(fn) : ~DeadIn(fn, ins)

\* elim_dead_code returned after it removed an instruction that was not dead
\* when the call began, its destination being used by a dead instruction
C22_Witness ==
    /\ Returned("elim_dead_code")
    /\ \E ins \in WalkedInsts(hist.before) :
           /\ ins.id \in pass.marked
           /\ is_local_var(ins.dst)
           /\ ~is_phi(ins)
           /\ \E other \in WalkedInsts(hist.before) :
                  /\ DeadIn(hist.before, other)
                  /\ \E k \in 1..Len(other.src) : other.src[k] = Var(ins.dst)
                  /\ \A third \in AllInsts(hist.before) \ {other} :
                         \A k \in 1..Len(third.src) : third.src[k] # Var(ins.dst)

(***************************************************************************)
(* Claims about the default listener methods, checked under SpecVerify.    *)
(***************************************************************************)
UseEvent(b, i, k, from, via) ==
    [ev |-> "use", b |-> b, i |-> i, k |-> k, from |-> from, via |-> via]

DefEvent(b, i) ==
    [ev |-> "def", b |-> b, i |-> i, k |-> 0, from |-> b, via |-> "on_instr"]

\* the calls that instruction i of block b produces: sources, then destination
InstrEvents(b, i) ==
    LET ins == fn.inst[b][i]
        def == IF ins.dst # NoSym THEN <<DefEvent(b, i)>> ELSE <<>>
    IN IF ins.op = "phi" THEN def
       ELSE [k \in 1..Len(ins.src) |-> UseEvent(b, i, k, b, "on_instr")] \o def

\* the calls that the phi prefix of successor s produces when b is entered
SuccEvents(b, s) ==
    LET prefix == CHOOSE n \in 0..Len(fn.inst[s]) :
                      /\ \A j \in 1..n : fn.inst[s][j].op = "phi"
                      /\ n < Len(fn.inst[s]) => fn.inst[s][n + 1].op # "phi"
        slots(j) == SelectSeq([k \in 1..Len(fn.inst[s][j].pred) |-> k],
                              LAMBDA k : fn.inst[s][j].pred[k] = b)
    IN Concat([j \in 1..prefix |->
                  [n \in 1..Len(slots(j)) |-> UseEvent(s, j, slots(j)[n], b, "on_succ_phi")]])

\* the calls that entering block b produces, in order
EnterEvents(b) ==
    Concat([i \in 1..Len(fn.inst[b]) |-> InstrEvents(b, i)])
    \o Concat([n \in 1..Len(fn.succ[b]) |-> SuccEvents(b, fn.succ[b][n])])

\* the calls of the whole walk so far
AllEvents == Concat(hist.log)

\* the walk stands in on_enter of a block
InEnter == pc = "walk" /\ pass.at > 0 /\ pass.walk[pass.at].ev = "enter"

\* the calls on_enter of the block reached has made are the first of the
\* calls in the order claimed, and all of them when on_enter returns
EnterInOrder ==
    InEnter =>
        LET made == hist.log[Len(hist.log)]
        IN /\ Len(made) <= Len(EnterEvents(CurBlock))
           /\ made = SubSeq(EnterEvents(CurBlock), 1, Len(made))
           /\ EventDone => made = EnterEvents(CurBlock)

\* the sources <<s, j, k>> of the phis of the phi prefixes that are paired
\* with a predecessor of their block, both blocks in the dominator tree
PairedSources ==
    {<<s, j, k>> \in UNION {UNION {{<<s, j, k>> : k \in 1..Len(fn.inst[s][j].src)} :
                                       j \in 1..PhiPrefixLen(fn, s)} : s \in Reachable(fn)} :
        /\ fn.inst[s][j].pred[k] \in Range(fn.pred[s])
        /\ fn.inst[s][j].pred[k] \in Reachable(fn)}

VisitsOf(src) ==
    SelectSeq(AllEvents, LAMBDA e : e.ev = "use" /\ <<e.b, e.i, e.k>> = src)

\* C23 as stated: entering block B produces, for each instruction in order,
\* on_use for its sources then on_def for its destination (a phi: on_def
\* only), then for each successor S and each phi of the prefix of S on_use for
\* the sources whose predecessor is B; so each phi source paired with a
\* reachable predecessor is visited exactly once per walk, and never from the
\* block of the phi.
C23_PhiSourceNeverFromOwnBlock ==
    /\ EnterInOrder
    /\ pc = "done" =>
           \A src \in PairedSources :
               /\ Len(VisitsOf(src)) = 1
               /\ VisitsOf(src)[1].from # src[1]

\* C23 amended: the same order of calls; each phi source paired with a
\* reachable predecessor is visited exactly once per walk, by on_succ_phi from
\* that predecessor (which is the block of the phi when the block is its own
\* predecessor), and never by on_instr of the phi.
C23_PhiSourceFromPairedPred ==
    /\ EnterInOrder
    /\ pc = "done" =>
           \A src \in PairedSources :
               /\ Len(VisitsOf(src)) = 1
               /\ VisitsOf(src)[1].from = fn.inst[src[1]][src[2]].pred[src[3]]
               /\ VisitsOf(src)[1].via = "on_succ_phi"

\* the walk ended on a function whose join has a phi with a source for each arm
C23_Witness ==
    /\ pc = "done"
    /\ Len(fn.inst) = 4
    /\ \E j \in 1..PhiPrefixLen(fn, 4) :
           /\ <<4, j, 1>> \in PairedSources
           /\ <<4, j, 2>> \in PairedSources
           /\ Len(VisitsOf(<<4, j, 1>>)) = 1
           /\ VisitsOf(<<4, j, 2>>)[1].from = 3

(***************************************************************************)
(* Claims about jumps, the entry block, the SSA flag and labels, checked   *)
(* under SpecBuild.                                                        *)
(***************************************************************************)
\* the state build_body is in after lifting `jmp tgt` in the current state
AfterJmp(tgt) == after_lift(fn, bld, build_jmp(fn, NextId, bld.cur, bld.labels, tgt))

JmpsTo(f, b) ==
    {ins \in AllInsts(f) : ins.op = "jmp" /\ ins.tgt = <<b>>}

\* C24: lifting a jmp whose label resolves to the entry block fails with
\* "cannot jump to function entry", the build ends in that error, and no
\* block ever holds a jmp whose target is the entry.
C24_JmpToEntryRejected ==
    /\ CanLift =>
           \A tgt \in 1..NB :
               (bld.labels[tgt] # 0 /\ bld.labels[tgt] = fn.ent) =>
                   /\ AfterJmp(tgt).pc = "err"
                   /\ AfterJmp(tgt).bld.err =
                          Err("cannot jump to function entry", "", fn.name[fn.ent])
                   /\ AfterJmp(tgt).f.inst = fn.inst
    /\ fn.ent # 0 => JmpsTo(fn, fn.ent) = {}

C24_Witness ==
    /\ pc = "err"
    /\ bld.err.msg = "cannot jump to function entry"
    /\ bld.cur > 1
    /\ \E b \in BlocksOf(fn) : JmpsTo(fn, b) # {}

\* C28: after a successful build the entry block has no predecessor: no jmp
\* and no br lifted by the builder creates an edge into the entry block.
C28_EntryHasNoPred ==
    pc = "ok" =>
        /\ fn.pred[fn.ent] = <<>>
        /\ \A b \in BlocksOf(fn) : ~Contains(fn.succ[b], fn.ent)

\* C29: the SSA flag becomes true through the builder's verification walk
\* only when the verifier recorded no error: after a walk that ends with a
\* non-empty error list the flag is still false.
C29_FlagOnlyWithoutErrors ==
    [][(pc = "verify" /\ bld.may_ssa /\ VerifierWalk(fn).err # <<>>) => ~fn'.ssa]_vars

\* C30: block labels are unique within a successfully built function: a body
\* that declares two blocks with the same label is rejected, so every label in
\* the label map denotes the only block of that name and every lifted block
\* is reached by its label.
C30_LabelsUnique ==
    pc = "ok" =>
        /\ \A a \in BlocksOf(fn), b \in BlocksOf(fn) : fn.name[a] = fn.name[b] => a = b
        /\ \A b \in BlocksOf(fn) : bld.labels[fn.name[b]] = b

(***************************************************************************)
(* Claims about side effects in elim_dead_code and copy propagation,       *)
(* checked under SpecPass.                                                 *)
(***************************************************************************)
StillIn(f, ins) == \E other \in AllInsts(f) : other.id = ins.id

\* C25: elim_dead_code never removes an instruction for which
\* has_side_effect() is true (a call, a st, or an instruction whose
\* destination is a global), under the ordinary or the circular phi rule.
C25_DceKeepsSideEffects ==
    Returned("elim_dead_code") =>
        \A ins \in AllInsts(hist.before) : has_side_effect(ins) => StillIn(fn, ins)

NamesGlobal(val) == val.t = "var" /\ is_global_var(val.s)

\* C26: copy propagation removes only movs whose destination is local: a mov
\* whose destination is a global is still present after the pass, and
\* operands naming a global are never substituted.
C26_CopyPropKeepsGlobals ==
    Returned("copy_prop") =>
        \A ins \in WalkedInsts(hist.before) :
            /\ (ins.op = "mov" /\ is_global_var(ins.dst)) => StillIn(fn, ins)
            /\ \A k \in 1..Len(ins.src) :
                   (NamesGlobal(ins.src[k]) /\ StillIn(fn, ins)) =>
                       InstById(fn, ins.id).src[k] = ins.src[k]

(***************************************************************************)
(* Claims about the Renamer's stacks, checked under SpecPass.              *)
(***************************************************************************)
\* the Renamer before the walk of f and after each of its events
RenamerTrace(f) ==
    FoldLeft(LAMBDA tr, e : Append(tr, RenOnEvent(tr[Len(tr)], e)),
             <<RenOnBegin(f)>>, walk_dom(f))

\* the number of blocks entered and not yet left after k events of the walk w
EnteredAfter(w, k) ==
    Cardinality({e \in 1..k : w[e].ev = "enter"})
        - Cardinality({e \in 1..k : w[e].ev = "exit"})

\* the index of the event that entered the block event k leaves
EnterOf(w, k) == CHOOSE e \in 1..k : w[e] = [ev |-> "enter", b |-> w[k].b]

Occurrences(s, x) == Cardinality({i \in 1..Len(s) : s[i] = x})

\* the stacks are scoped by block throughout the walk w, tr[k + 1] being the
\* Renamer after k events
StacksScopedIn(w, tr) ==
    \A k \in 0..Len(w) :
        LET st == tr[k + 1]
        IN /\ Len(st.def) = EnteredAfter(w, k)
           /\ \A n \in DOMAIN st.sym : st.sym[n].stack # <<>>
           /\ IF k = 0 THEN TRUE
              ELSE IF w[k].ev # "exit" THEN TRUE
              ELSE \A n \in DOMAIN st.sym :
                       /\ st.sym[n].stack = tr[EnterOf(w, k)].sym[n].stack
                       /\ Len(tr[k].sym[n].stack) - Len(st.sym[n].stack) =
                              Occurrences(tr[k].def[Len(tr[k].def)], n)

RenamedAsTraced(f, g, tr) == StacksScopedIn(walk_dom(f), tr) /\ g = tr[Len(tr)].f

\* C27: during the rename walk the version stacks are scoped by block: when
\* on_exit of a block returns every name's stack is what it was when on_enter
\* of that block began (one pop per definition recorded in the block's
\* frame), the frame stack is as deep as the number of blocks entered, and no
\* version stack is empty, so latest() always finds a version.
C27_RenameStacksScoped ==
    [][RenameStep => RenamedAsTraced(fn, fn', RenamerTrace(fn))]_vars

\* rename ran on a function of five blocks where a nested block defined a
\* name that an enclosing block had defined already
C27_Witness ==
    /\ pc = "dce"
    /\ Len(fn.inst) = 5
    /\ \E ins \in Range(fn.inst[3]) : is_local_var(ins.dst) /\ ins.dst.v >= 2
    /\ \E ins \in Range(fn.inst[4]) : is_local_var(ins.dst) /\ ins.dst.v >= 2

====
